---- MODULE Spec2Model ----
(***************************************************************************)
(* A model of the AVM2 object/class runtime core:                          *)
(*   - Executable::exec and the diagnostic CallStack   (SpecExec)          *)
(*   - the ClassObject construction/linking lifecycle  (SpecClass)         *)
(*   - property tables and instance slot layout        (SpecTable)         *)
(*   - call_super, get_super and set_super             (SpecSuper)         *)
(*   - dynamic properties and enumeration of an object (SpecObject)        *)
(*   - slots and the bound-method cache of an object   (SpecSlots)         *)
(*   - one invocation of Executable::exec              (SpecCall)          *)
(*   - ClassObject::apply and its application cache    (SpecApply)         *)
(*   - calling a class value, ClassObject::call        (SpecClassCall)     *)
(*   - ClassObject::construct                          (SpecConstruct)     *)
(*   - ClassObject::link_interfaces                    (SpecIface)         *)
(*   - prototypes and allocators set by from_class     (SpecBuildClass)    *)
(*   - qualified names parsed and rendered             (SpecQName)         *)
(*   - CallStack::display                              (SpecTrace)         *)
(*   - init_instance_vtable and into_finished_class    (SpecFinish)        *)
(*   - borrows held while class code is linked and run (SpecBorrow)        *)
(*   - the slot vector over repeated installations     (SpecInstall)       *)
(*   - prototype links and the lookup along them       (SpecHeap)          *)
(*   - link_interfaces on a class linked before        (SpecRelink)        *)
(* Each specification drives one component; the variables of the other     *)
(* components stay at their initial values.                                *)
(***************************************************************************)
EXTENDS Integers, Sequences, FiniteSets, TLC

VARIABLES
    stack,      \* CallStack.stack: Vec<CallNode>
    frames,     \* the exec invocations in flight (the native call chain)
    lastExit,   \* observation of the most recent return from exec
    classObjs,          \* the ClassObjects allocated so far (index = identity)
    class_initialized,  \* descriptors whose "class initialized" flag is set
    calls,              \* operations waiting for a running class initializer
    initRuns,           \* every class-initializer invocation: descriptor, receiver
    failedInit,         \* descriptors whose class initializer returned an error
    instances,          \* the class objects construct has returned an instance of
    lastResult,         \* observation of the most recent completed operation
    traits,             \* per class: the instance traits its descriptor declares
    ivtable,            \* per class object: its instance VTable
    objects,            \* per class: the instance construct returned, if any
    cur,                \* the method activation currently running, if any
    lastSuper,          \* observation of the most recent supercall operation
    obj,                \* one ScriptObjectData: class, values, enumerants, slots, bound methods
    protos,             \* the dynamic maps along its prototype chain, nearest first
    lastOp,             \* observation of the most recent operation on the object
    call,               \* one exec invocation: its inputs, progress and outcome
    generic,            \* the generic class object: is_generic and its applications
    arena,              \* the class objects apply can return: params of each
    lastApply,          \* observation of the most recent apply
    lastCall,           \* observation of the most recent call of a class value
    ctor,               \* one construct call: its inputs, progress and log
    klass,              \* the class objects from_class built, and their prototypes
    ifc,                \* one link_interfaces call: hierarchy, queue, result
    qn,                 \* one qualified name: its text, parsed or rendered
    shown,              \* a CallStack and the text of its most recent display
    fin,                \* one class object under init_instance_vtable / into_finished_class
    bor,                \* the borrows of a class object and its descriptor, step by step
    heap,               \* objects, their prototype links, and one lookup along them
    inst                \* one object and the property table its slots are installed from

execVars == <<stack, frames, lastExit>>

classVars == <<classObjs, class_initialized, calls, initRuns, failedInit, instances,
               lastResult>>

tableVars == <<traits, ivtable, objects>>

superVars == <<cur, lastSuper>>

objVars == <<obj, protos, lastOp>>

callVars == <<call>>

applyVars == <<generic, arena, lastApply>>

linkVars == <<lastCall, ctor, klass, ifc>>

textVars == <<qn, shown>>

lateVars == <<fin, bor, heap, inst>>

vars == <<stack, frames, lastExit, classObjs, class_initialized, calls, initRuns,
          failedInit, instances, lastResult, traits, ivtable, objects, cur, lastSuper,
          obj, protos, lastOp, call, generic, arena, lastApply, lastCall, ctor,
          klass, ifc, qn, shown, fin, bor, heap, inst>>

None == "None"

(***************************************************************************)
(*                       Class Object Lifecycle                            *)
(***************************************************************************)

\* Bounds of the lifecycle model.
MaxClassObjects == 2    \* class objects allocated

\* Class descriptors: a plain class, a final class, an interface.
Descs == {"P", "F", "I"}
is_final(d) == d = "F"
is_interface(d) == d = "I"

NoResult == [op |-> "none", res |-> "none", ran |-> FALSE, badSuper |-> FALSE]

\* A plausible slip: only the `final` check, the interface check forgotten.
from_class_partial_final_only(class, sup, objs) ==
    IF sup /= 0 /\ is_final(objs[sup].class) THEN [ok |-> FALSE, obj |-> None]
    ELSE [ok |-> TRUE,
          obj |-> [class |-> class, superclass_object |-> sup, prototype |-> FALSE,
                   instance_of |-> None, ivt |-> FALSE, finished |-> FALSE,
                   via |-> "partial", log |-> <<"from_class_partial">>]]

\* from_class_partial: fails fast on a final or interface base class, else
\* allocates the bare class object.
from_class_partial(class, sup, objs) ==
    IF sup /= 0 /\ is_final(objs[sup].class) THEN [ok |-> FALSE, obj |-> None]
    ELSE IF sup /= 0 /\ is_interface(objs[sup].class) THEN [ok |-> FALSE, obj |-> None]
    ELSE [ok |-> TRUE,
          obj |-> [class |-> class, superclass_object |-> sup, prototype |-> FALSE,
                   instance_of |-> None, ivt |-> FALSE, finished |-> FALSE,
                   via |-> "partial", log |-> <<"from_class_partial">>]]

\* The steps of into_finished_class, in program order.
into_finished_steps ==
    <<"init_class_vtable", "link_interfaces", "install_class_vtable_and_slots",
      "run_class_initializer">>

\* A plausible slip: linking the type before allocating and linking the prototype.
from_class_steps_type_first ==
    <<"link_type", "allocate_prototype", "link_prototype", "init_instance_vtable">>
        \o into_finished_steps

\* The steps from_class performs after from_class_partial, in program order.
from_class_steps ==
    <<"allocate_prototype", "link_prototype", "link_type", "init_instance_vtable">>
        \o into_finished_steps

\* Whether a step returns an error: the injected fault of a fallible collaborator,
\* or init_instance_vtable on a class object not yet linked to a type.
StepFails(o, step, fault) ==
    \/ step = fault
    \/ step = "init_instance_vtable" /\ o.instance_of = None

\* What a step leaves on the class object (link_prototype stores the prototype
\* before its fallible property write; a failing vtable step stores nothing).
StepEffect(o, step, failed) ==
    CASE step = "link_prototype" -> [o EXCEPT !.prototype = TRUE]
      [] step = "link_type" -> [o EXCEPT !.instance_of = "Class"]
      [] step = "init_instance_vtable" -> IF failed THEN o ELSE [o EXCEPT !.ivt = TRUE]
      [] OTHER -> o

\* Runs `steps` in order up to (not including) run_class_initializer, stopping at
\* the first failing one; log lists the steps entered.
RECURSIVE RunSteps(_, _, _, _)
RunSteps(o, steps, fault, log) ==
    IF steps = <<>> \/ Head(steps) = "run_class_initializer"
    THEN [ok |-> TRUE, obj |-> o, log |-> log]
    ELSE LET s == Head(steps)
             f == StepFails(o, s, fault)
         IN IF f THEN [ok |-> FALSE, obj |-> StepEffect(o, s, TRUE), log |-> Append(log, s)]
            ELSE RunSteps(StepEffect(o, s, FALSE), Tail(steps), fault, Append(log, s))

\* A plausible slip: no guard, the initializer runs on every call.
run_class_initializer_unguarded(flags, class) ==
    [invoke |-> TRUE, flags |-> flags \cup {class}]

\* A plausible slip: the flag is never marked before the call.
run_class_initializer_unmarked(flags, class) ==
    [invoke |-> class \notin flags, flags |-> flags]

\* run_class_initializer up to the call: the guard on the descriptor's flag, and
\* mark_class_initialized before the initializer is invoked.
run_class_initializer(flags, class) ==
    IF class \notin flags
    THEN [invoke |-> TRUE, flags |-> flags \cup {class}]
    ELSE [invoke |-> FALSE, flags |-> flags]

\* A plausible slip: a failed initializer clears the flag so it can be retried.
FlagsAfterInitializerRetry(flags, class, ret) ==
    IF ret = "err" THEN flags \ {class} ELSE flags

\* The flag after the initializer call returned: `?` propagates, nothing is reset.
FlagsAfterInitializer(flags, class, ret) == flags

FromClassFaults ==
    {"none", "allocate_prototype", "link_prototype", "init_instance_vtable",
     "init_class_vtable", "link_interfaces"}

\* A superclass object handed to from_class must have a prototype
\* (allocate_prototype reads superclass_object.prototype()).
SuperChoices(needProto) ==
    {0} \cup {i \in 1..Len(classObjs) : needProto => classObjs[i].prototype}

\* The observation left by an operation when it returns: its result, whether it
\* invoked a class initializer, whether it was handed a final/interface base.
Result(op, res, ran, badSuper) ==
    [op |-> op, res |-> res, ran |-> ran, badSuper |-> badSuper]

BadSuper(sup) ==
    sup /= 0 /\ (is_final(classObjs[sup].class) \/ is_interface(classObjs[sup].class))

\* The tail shared by from_class, into_finished_class and run_class_initializer:
\* run_class_initializer on class object c of descriptor `class`. Either the
\* initializer is invoked (the operation waits in `calls` for its return) or the
\* operation completes with Ok.
EnterInitializer(op, c, class) ==
    LET r == run_class_initializer(class_initialized, class) IN
    /\ class_initialized' = r.flags
    /\ IF r.invoke
       THEN /\ initRuns' = Append(initRuns, [class |-> class, receiver |-> c])
            /\ calls' = Append(calls, [op |-> op, cls |-> c])
            /\ UNCHANGED lastResult
       ELSE /\ UNCHANGED <<initRuns, calls>>
            /\ lastResult' = Result(op, "Ok", FALSE, FALSE)

\* Whether the operation completes at once (the initializer is not invoked).
CompletesAtOnce(class) == ~run_class_initializer(class_initialized, class).invoke

\* from_class_partial called on its own: a bare class object, or an error.
FromClassPartial ==
    /\ Len(classObjs) < MaxClassObjects
    /\ \E d \in Descs, sup \in SuperChoices(FALSE) :
         LET r == from_class_partial(d, sup, classObjs) IN
         /\ classObjs' = IF r.ok THEN Append(classObjs, r.obj) ELSE classObjs
         /\ lastResult' = Result("from_class_partial", IF r.ok THEN "Ok" ELSE "Err",
                                 FALSE, BadSuper(sup))
    /\ UNCHANGED <<class_initialized, calls, initRuns, failedInit, instances>>
    /\ UNCHANGED <<execVars, tableVars, superVars, objVars, callVars, applyVars, linkVars, textVars, lateVars>>

\* from_class: from_class_partial, then the linking steps, then the initializer.
\* A class object whose construction failed before the initializer ran is
\* unreachable (from_class returned Err) and is not kept.
FromClass ==
    /\ Len(classObjs) < MaxClassObjects
    /\ \E d \in Descs, sup \in SuperChoices(TRUE), fault \in FromClassFaults :
         LET p == from_class_partial(d, sup, classObjs) IN
         IF ~p.ok
         THEN /\ lastResult' = Result("from_class", "Err", FALSE, BadSuper(sup))
              /\ UNCHANGED <<classObjs, class_initialized, calls, initRuns>>
         ELSE LET r == RunSteps([p.obj EXCEPT !.via = "from_class"], from_class_steps,
                                fault, <<"from_class_partial">>)
                  c == Len(classObjs) + 1
              IN IF ~r.ok
                 THEN /\ lastResult' = Result("from_class", "Err", FALSE, BadSuper(sup))
                      /\ UNCHANGED <<classObjs, class_initialized, calls, initRuns>>
                 ELSE /\ classObjs' = Append(classObjs,
                                 [r.obj EXCEPT !.finished = CompletesAtOnce(d),
                                               !.log = Append(r.log, "run_class_initializer")])
                      /\ EnterInitializer("from_class", c, d)
    /\ UNCHANGED <<failedInit, instances>>
    /\ UNCHANGED <<execVars, tableVars, superVars, objVars, callVars, applyVars, linkVars, textVars, lateVars>>

\* into_finished_class on a class object linked to a type (it unwraps
\* instance_of), be it already finished or still running its initializer.
IntoFinishedClass ==
    /\ \E c \in 1..Len(classObjs), fault \in {"none", "init_class_vtable", "link_interfaces"} :
         LET o == classObjs[c]
             r == RunSteps(o, into_finished_steps, fault, <<>>)
         IN /\ o.instance_of /= None
            /\ IF ~r.ok
               THEN /\ lastResult' = Result("into_finished_class", "Err", FALSE, FALSE)
                    /\ UNCHANGED <<classObjs, class_initialized, calls, initRuns>>
               ELSE /\ classObjs' = [classObjs EXCEPT
                          ![c].finished = @ \/ CompletesAtOnce(o.class)]
                    /\ EnterInitializer("into_finished_class", c, o.class)
    /\ UNCHANGED <<failedInit, instances>>
    /\ UNCHANGED <<execVars, tableVars, superVars, objVars, callVars, applyVars, linkVars, textVars, lateVars>>

\* run_class_initializer called directly on a class object.
RunClassInitializer ==
    /\ \E c \in 1..Len(classObjs) :
         EnterInitializer("run_class_initializer", c, classObjs[c].class)
    /\ UNCHANGED <<classObjs, failedInit, instances>>
    /\ UNCHANGED <<execVars, tableVars, superVars, objVars, callVars, applyVars, linkVars, textVars, lateVars>>

\* The innermost running class initializer returns; the waiting operation
\* completes with Ok or propagates the error.
InitializerReturn ==
    /\ calls /= <<>>
    /\ \E ret \in {"ok", "err"} :
         LET top == calls[Len(calls)]
             class == classObjs[top.cls].class
             finishing == ret = "ok" /\ top.op \in {"from_class", "into_finished_class"}
         IN /\ calls' = SubSeq(calls, 1, Len(calls) - 1)
            /\ class_initialized' = FlagsAfterInitializer(class_initialized, class, ret)
            /\ failedInit' = IF ret = "err" THEN failedInit \cup {class} ELSE failedInit
            /\ classObjs' = IF finishing
                            THEN [classObjs EXCEPT ![top.cls].finished = TRUE]
                            ELSE classObjs
            /\ lastResult' = Result(top.op, IF ret = "ok" THEN "Ok" ELSE "Err", TRUE, FALSE)
    /\ UNCHANGED <<initRuns, instances>>
    /\ UNCHANGED <<execVars, tableVars, superVars, objVars, callVars, applyVars, linkVars, textVars, lateVars>>

\* construct: allocate an instance (the allocator reads the class's prototype),
\* install its slots, run the instance initializer. No class initializer runs.
Construct ==
    /\ \E c \in 1..Len(classObjs), fault \in {"none", "allocator", "call_init"} :
         /\ classObjs[c].prototype
         /\ instances' = IF fault = "none" THEN instances \cup {c} ELSE instances
         /\ lastResult' = Result("construct", IF fault = "none" THEN "Ok" ELSE "Err",
                                 FALSE, FALSE)
    /\ UNCHANGED <<classObjs, class_initialized, calls, initRuns, failedInit>>
    /\ UNCHANGED <<execVars, tableVars, superVars, objVars, callVars, applyVars, linkVars, textVars, lateVars>>

ClassNext ==
    \/ FromClassPartial \/ FromClass \/ IntoFinishedClass \/ RunClassInitializer
    \/ InitializerReturn \/ Construct

(***************************************************************************)
(*                    Executable::exec and CallStack                       *)
(***************************************************************************)

\* Bounds of the exec model.
MaxDepth == 2       \* nesting of exec invocations
MaxArgs == 2        \* arguments supplied by a caller
MaxSig == 1         \* declared parameters of a method

ExecKinds == {"Native", "Action"}
MethodNames == {"m1", "m2"}
BoundSuperclasses == {None, "K"}
BoundReceivers == {None, "objB"}
UnboundReceivers == {"Null", "Undefined", "objU", "prim"}
Units == {"unit1"}
\* What the collaborators of exec may fail at: coerce_to_object, the creation of
\* the activation (from_builtin / from_method), resolve_parameters.
Faults == {"none", "coerce", "activation", "params"}

\* CallStack::new
CallStackNew == <<>>

\* Executable::as_method / Executable::bound_superclass feed CallStack::push.
push(st, exec) ==
    Append(st, [node |-> "Method", method |-> exec.method,
                superclass |-> exec.bound_superclass])

\* CallStack::push_global_init
push_global_init(st, script) ==
    Append(st, [node |-> "GlobalInit", method |-> script, superclass |-> None])

\* CallStack::pop: Vec::pop, a no-op returning None on an empty vector.
pop(st) == IF Len(st) = 0 THEN st ELSE SubSeq(st, 1, Len(st) - 1)

\* A plausible slip: the caller's receiver preferred over the bound one.
ResolveReceiverCallerFirst(bound, unbound, fault) ==
    IF unbound \notin {"Null", "Undefined"}
    THEN IF fault /= "coerce"
         THEN [ok |-> TRUE, obj |-> IF unbound = "prim" THEN "boxed" ELSE unbound]
         ELSE [ok |-> FALSE, obj |-> None]
    ELSE IF bound /= None THEN [ok |-> TRUE, obj |-> bound]
    ELSE [ok |-> TRUE, obj |-> "global"]

\* Receiver resolution of exec: bound receiver, else the global object of the
\* captured scope for null/undefined, else coerce_to_object (which may fail).
ResolveReceiver(bound, unbound, fault) ==
    IF bound /= None THEN [ok |-> TRUE, obj |-> bound]
    ELSE IF unbound \in {"Null", "Undefined"} THEN [ok |-> TRUE, obj |-> "global"]
    ELSE IF fault /= "coerce" THEN [ok |-> TRUE, obj |-> IF unbound = "prim" THEN "boxed" ELSE unbound]
    ELSE [ok |-> FALSE, obj |-> None]

\* A plausible slip: every bytecode method truncated, checked or not.
ActionArgsAlwaysTruncate(nargs, sig, variadic, unchecked) ==
    IF nargs > sig /\ ~variadic THEN sig ELSE nargs

\* Arguments handed to a bytecode method: truncated for unchecked methods.
ActionArgs(nargs, sig, variadic, unchecked) ==
    IF unchecked /\ nargs > sig /\ ~variadic THEN sig ELSE nargs

\* The native arity check of exec.
NativeArityOk(nargs, sig, variadic) == ~(nargs > sig /\ ~variadic)

\* The prologue of exec up to the point where the method body is invoked.
\* Yields the path taken: "early" (an error returned before any frame was
\* pushed) or "invoked" with the receiver and argument count the body gets.
ExecPrologue(exec, unbound, nargs, fault) ==
    LET r == ResolveReceiver(exec.bound_receiver, unbound, fault)
        activationOk == fault /= "activation"
        paramsOk == fault /= "params"
    IN
    IF exec.kind = "Native" THEN
        IF ~r.ok THEN [path |-> "early", why |-> "coerce", receiver |-> None, nargs |-> 0]
        ELSE IF ~activationOk THEN [path |-> "early", why |-> "activation", receiver |-> None, nargs |-> 0]
        ELSE IF ~NativeArityOk(nargs, exec.sig, exec.variadic)
            THEN [path |-> "early", why |-> "arity", receiver |-> None, nargs |-> 0]
        ELSE IF ~paramsOk THEN [path |-> "early", why |-> "params", receiver |-> None, nargs |-> 0]
        ELSE [path |-> "invoked", why |-> None, receiver |-> r.obj, nargs |-> nargs]
    ELSE
        IF ~r.ok THEN [path |-> "early", why |-> "coerce", receiver |-> None, nargs |-> 0]
        ELSE IF ~activationOk THEN [path |-> "early", why |-> "activation", receiver |-> None, nargs |-> 0]
        ELSE [path |-> "invoked", why |-> None, receiver |-> r.obj,
              nargs |-> ActionArgs(nargs, exec.sig, exec.variadic, exec.unchecked)]

\* A plausible slip: popping only when the body succeeded (`ret?` before the pop).
ExecEpilogueOkOnly(st, ret) == IF ret = "err" THEN st ELSE pop(st)

\* The epilogue of exec: pop_call, then hand `ret` back, whatever it is.
ExecEpilogue(st, ret) == pop(st)

Executables ==
    [kind : ExecKinds, method : MethodNames, bound_receiver : BoundReceivers,
     bound_superclass : BoundSuperclasses, sig : 0..MaxSig,
     variadic : BOOLEAN, unchecked : BOOLEAN]

NoExit == [path |-> "none", before |-> 0, after |-> 0, why |-> None]

\* A caller may invoke exec when nothing runs yet or from inside a running body.
CanCall == Len(frames) < MaxDepth

\* Script global initialisation starts: its frame is the base of the stack.
GlobalInitEnter ==
    /\ frames = <<>> /\ stack = <<>>
    /\ \E u \in Units : stack' = push_global_init(stack, u)
    /\ UNCHANGED <<frames, lastExit>>
    /\ UNCHANGED <<classVars, tableVars, superVars, objVars, callVars, applyVars, linkVars, textVars, lateVars>>

\* exec entered; an early error returns at once, otherwise the frame is pushed
\* and the body starts running.
ExecEnter ==
    /\ CanCall
    /\ \E exec \in Executables, unbound \in UnboundReceivers, nargs \in 0..MaxArgs,
          fault \in Faults :
         LET p == ExecPrologue(exec, unbound, nargs, fault) IN
         IF p.path = "early"
         THEN /\ lastExit' = [path |-> "early", before |-> Len(stack),
                              after |-> Len(stack), why |-> p.why]
              /\ UNCHANGED <<stack, frames>>
         ELSE /\ stack' = push(stack, exec)
              /\ frames' = Append(frames, [method |-> exec.method,
                                           superclass |-> exec.bound_superclass,
                                           entry |-> Len(stack)])
              /\ UNCHANGED lastExit
    /\ UNCHANGED <<classVars, tableVars, superVars, objVars, callVars, applyVars, linkVars, textVars, lateVars>>

\* The innermost body returns (Ok or Err); exec pops and returns the result.
ExecReturn ==
    /\ frames /= <<>>
    /\ \E ret \in {"ok", "err"} :
         LET f == frames[Len(frames)] IN
         /\ stack' = ExecEpilogue(stack, ret)
         /\ frames' = SubSeq(frames, 1, Len(frames) - 1)
         /\ lastExit' = [path |-> ret, before |-> f.entry, after |-> Len(stack'),
                         why |-> None]
    /\ UNCHANGED <<classVars, tableVars, superVars, objVars, callVars, applyVars, linkVars, textVars, lateVars>>

ExecNext == GlobalInitEnter \/ ExecEnter \/ ExecReturn

(***************************************************************************)
(*                 Property tables and instance slots                      *)
(***************************************************************************)

\* Bound of the table model.
MaxTraits == 2      \* traits one class declares directly

\* The hierarchy A <- B <- C; A is a root class.
Classes == {"A", "B", "C"}

superclass_object(c) ==
    CASE c = "A" -> None
      [] c = "B" -> "A"
      [] c = "C" -> "B"

\* Trait names: slots and methods of the layout scenarios, and the two names
\* the supercall scenarios use.
Names == {"x", "y", "z", "w", "f", "p"}

\* Values are tuples; a table slot that records no default holds NoDefault.
Undefined == <<"undefined">>
NoDefault == <<>>

\* The closed union Property: Slot{slot_id}, ConstSlot{slot_id},
\* Method{disp_id}, Virtual{get, set}; NoProperty stands for the answer None
\* of get_trait.  An id that a variant does not carry is -1.
NoProperty == [kind |-> "None", id |-> -1, get |-> -1, set |-> -1]
Slot(slot_id) == [kind |-> "Slot", id |-> slot_id, get |-> -1, set |-> -1]
ConstSlot(slot_id) == [kind |-> "ConstSlot", id |-> slot_id, get |-> -1, set |-> -1]
Method(disp_id) == [kind |-> "Method", id |-> disp_id, get |-> -1, set |-> -1]
Virtual(get, set) == [kind |-> "Virtual", id |-> -1, get |-> get, set |-> set]

\* VTable::empty: no entries, no slots, no dispatch table.
VTableEmpty ==
    [props |-> [n \in {} |-> NoProperty], default_slots |-> <<>>,
     methods |-> <<>>, inited |-> FALSE]

\* One entry of the dispatch table: (declaring class, executable); the
\* captured scope is the declaring class's instance scope.
ClassBoundMethod(class, t) == [class |-> class, method |-> t.name, role |-> t.kind]

\* Queries of a table.
get_trait(vt, name) == IF name \in DOMAIN vt.props THEN vt.props[name] ELSE NoProperty
has_trait(vt, name) == get_trait(vt, name) /= NoProperty
get_full_method(vt, disp_id) == vt.methods[disp_id + 1]
default_slots(vt) == vt.default_slots

\* The entries of a table with the one for `name` inserted or replaced.
Insert(props, name, property) ==
    [n \in DOMAIN props \cup {name} |-> IF n = name THEN property ELSE props[n]]

\* One trait of init_vtable, applied to the table built so far.
AddTrait(vt, class, t) ==
    CASE t.kind = "Slot" ->
            [vt EXCEPT !.props = Insert(@, t.name, Slot(Len(vt.default_slots))),
                       !.default_slots = Append(@, t.default)]
      [] t.kind = "Const" ->
            [vt EXCEPT !.props = Insert(@, t.name, ConstSlot(Len(vt.default_slots))),
                       !.default_slots = Append(@, t.default)]
      [] t.kind = "Method" ->
            [vt EXCEPT !.props = Insert(@, t.name, Method(Len(vt.methods))),
                       !.methods = Append(@, ClassBoundMethod(class, t))]
      [] t.kind = "Getter" ->
            [vt EXCEPT !.props = Insert(@, t.name,
                            IF get_trait(vt, t.name).kind = "Virtual"
                            THEN [get_trait(vt, t.name) EXCEPT !.get = Len(vt.methods)]
                            ELSE Virtual(Len(vt.methods), -1)),
                       !.methods = Append(@, ClassBoundMethod(class, t))]
      [] t.kind = "Setter" ->
            [vt EXCEPT !.props = Insert(@, t.name,
                            IF get_trait(vt, t.name).kind = "Virtual"
                            THEN [get_trait(vt, t.name) EXCEPT !.set = Len(vt.methods)]
                            ELSE Virtual(-1, Len(vt.methods))),
                       !.methods = Append(@, ClassBoundMethod(class, t))]

RECURSIVE AddTraits(_, _, _, _)
AddTraits(vt, class, ts, i) ==
    IF i > Len(ts) THEN vt
    ELSE AddTraits(AddTrait(vt, class, ts[i]), class, ts, i + 1)

\* init_vtable: start from the superclass's table (empty for a root class)
\* and add the class's own traits in declaration order.
init_vtable(class, ts, superVt) ==
    [AddTraits(superVt, class, ts, 1) EXCEPT !.inited = TRUE]

\* A plausible slip: every slot starts as undefined, whatever the table says.
install_instance_slots_undefined(slots, vt) ==
    slots \o [i \in 1..Len(default_slots(vt)) |-> Undefined]

\* A plausible slip: the slot vector built anew by every installation.
install_instance_slots_anew(slots, vt) ==
    [i \in 1..Len(default_slots(vt)) |->
        IF default_slots(vt)[i] = NoDefault THEN Undefined ELSE default_slots(vt)[i]]

\* install_instance_slots: push every default of the table onto the slot
\* vector (undefined where the table records none).
install_instance_slots(slots, vt) ==
    slots \o [i \in 1..Len(default_slots(vt)) |->
                 IF default_slots(vt)[i] = NoDefault THEN Undefined ELSE default_slots(vt)[i]]

\* No instance of the class has been constructed.
NoObject == [made |-> FALSE, slots |-> <<>>]

\* The superclass table init_instance_vtable hands to init_vtable.
SuperVTable(vts, c) ==
    IF superclass_object(c) = None THEN VTableEmpty ELSE vts[superclass_object(c)]

\* Trait lists: at most maxlen traits, no name declared twice.
TraitLists(class, names, kinds, maxlen) ==
    LET TraitSet == {[name |-> n, kind |-> k, default |-> <<class, n>>] :
                        n \in names, k \in kinds}
        Lists == UNION {[1..n -> TraitSet] : n \in 0..maxlen}
    IN {s \in Lists : \A i, j \in 1..Len(s) : i /= j => s[i].name /= s[j].name}

SlotKinds == {"Slot", "Const"}
LayoutKinds == {"Slot", "Const", "Method"}
LayoutNames == [A |-> {"x", "y"}, B |-> {"z", "w", "x"}]

\* init_instance_vtable of class object c.  A class object is built by
\* from_class, which returns it only once finished, so the superclass a class
\* object names has its table built.
InitInstanceVtable ==
    /\ \E c \in Classes, fault \in {"none", "validate_class"} :
         /\ ~ivtable[c].inited
         /\ superclass_object(c) /= None => ivtable[superclass_object(c)].inited
         /\ ivtable' = IF fault = "none"
                       THEN [ivtable EXCEPT ![c] = init_vtable(c, traits[c], SuperVTable(ivtable, c))]
                       ELSE ivtable
    /\ UNCHANGED <<traits, objects>>
    /\ UNCHANGED <<execVars, classVars, superVars, objVars, callVars, applyVars, linkVars, textVars, lateVars>>

\* construct: the allocator makes a bare object of the class with an empty
\* slot vector, install_instance_slots fills it, call_init runs; the
\* instance is returned only if neither the allocator nor call_init failed.
ConstructInstance ==
    /\ \E c \in Classes, fault \in {"none", "allocator", "call_init"} :
         /\ ivtable[c].inited
         /\ ~objects[c].made
         /\ objects' = IF fault = "none"
                       THEN [objects EXCEPT ![c] =
                                [made |-> TRUE,
                                 slots |-> install_instance_slots(<<>>, ivtable[c])]]
                       ELSE objects
    /\ UNCHANGED <<traits, ivtable>>
    /\ UNCHANGED <<execVars, classVars, superVars, objVars, callVars, applyVars, linkVars, textVars, lateVars>>

TableNext == InitInstanceVtable \/ ConstructInstance

(***************************************************************************)
(*                  call_super, get_super and set_super                    *)
(***************************************************************************)

SuperNames == {"f", "p"}

\* What a class may declare under the name p.
PKinds == {"absent", "Slot", "Const", "Method", "Getter", "Setter", "GetterSetter"}

\* Every class declares the method f; p is declared as the kind says.
SuperTraits(class, kind) ==
    LET T(k) == [name |-> "p", kind |-> k, default |-> <<class, "p">>] IN
    <<[name |-> "f", kind |-> "Method", default |-> NoDefault]>> \o
    (CASE kind = "absent" -> <<>>
       [] kind = "GetterSetter" -> <<T("Getter"), T("Setter")>>
       [] OTHER -> <<T(kind)>>)

\* An activation: the method that runs, the class it is bound to (its
\* bound_superclass) and its receiver; Idle when no method runs.
Idle == [class |-> None, method |-> None, role |-> None, receiver |-> None]

NoError == [type |-> None, code |-> 0, names |-> {}]

\* The outcomes of a supercall operation.
\* An error; `names` is what its message mentions.
Failed(type, code, names) ==
    [kind |-> "error", error |-> [type |-> type, code |-> code, names |-> names],
     callee |-> Idle, via |-> None]

\* FunctionObject::from_method(method, scope, Some(receiver), Some(class))
\* called with `receiver`: exec runs the method on the bound receiver, bound
\* to `class`.
Invoked(bm, receiver) ==
    [kind |-> "invoke", error |-> NoError,
     callee |-> [class |-> bm.class, method |-> bm.method, role |-> bm.role,
                 receiver |-> ResolveReceiver(receiver, receiver, "none").obj],
     via |-> None]

\* The bound function object itself is the result; nothing is invoked.
Function(bm, receiver) ==
    [kind |-> "function", error |-> NoError,
     callee |-> [class |-> bm.class, method |-> bm.method, role |-> bm.role,
                 receiver |-> receiver],
     via |-> None]

\* The result is that of the plain operation `via` on the receiver.
Delegated(via) ==
    [kind |-> "delegate", error |-> NoError, callee |-> Idle, via |-> via]

\* A plausible slip: resolving in the table of the receiver's runtime class.
call_super_receiver_class(vts, self, name, receiver) ==
    LET property == get_trait(vts[receiver], name) IN
    IF property.kind = "None" THEN Failed("ReferenceError", 1070, {"method", "class"})
    ELSE IF property.kind = "Method"
        THEN Invoked(get_full_method(vts[receiver], property.id), receiver)
    ELSE Delegated("call_property")

\* ClassObject::call_super on class object `self`.
call_super(vts, self, name, receiver) ==
    LET property == get_trait(vts[self], name) IN
    IF property.kind = "None" THEN Failed("ReferenceError", 1070, {"method", "class"})
    ELSE IF property.kind = "Method"
        THEN Invoked(get_full_method(vts[self], property.id), receiver)
    ELSE Delegated("call_property")

\* A plausible slip: get_super calls a method as it calls a getter.
get_super_calls_method(vts, self, name, receiver) ==
    LET property == get_trait(vts[self], name) IN
    CASE property.kind = "Virtual" /\ property.get /= -1 ->
            Invoked(get_full_method(vts[self], property.get), receiver)
      [] property.kind = "Method" ->
            Invoked(get_full_method(vts[self], property.id), receiver)
      [] property.kind = "Virtual" /\ property.get = -1 ->
            Failed("RustError", 0, {"method"})
      [] property.kind \in {"Slot", "ConstSlot"} -> Delegated("get_property")
      [] property.kind = "None" -> Failed("RustError", 0, {"method"})

\* ClassObject::get_super on class object `self`.
get_super(vts, self, name, receiver) ==
    LET property == get_trait(vts[self], name) IN
    CASE property.kind = "Virtual" /\ property.get /= -1 ->
            Invoked(get_full_method(vts[self], property.get), receiver)
      [] property.kind = "Method" ->
            Function(get_full_method(vts[self], property.id), receiver)
      [] property.kind = "Virtual" /\ property.get = -1 ->
            Failed("RustError", 0, {"method"})
      [] property.kind \in {"Slot", "ConstSlot"} -> Delegated("get_property")
      [] property.kind = "None" -> Failed("RustError", 0, {"method"})

\* A plausible slip: treating a const slot like a slot.
set_super_const_as_slot(vts, self, name, receiver) ==
    LET property == get_trait(vts[self], name) IN
    IF property.kind = "None" THEN Failed("RustError", 0, {"method"})
    ELSE IF property.kind = "Virtual" /\ property.set /= -1
        THEN Invoked(get_full_method(vts[self], property.set), receiver)
    ELSE IF property.kind \in {"Slot", "ConstSlot"} THEN Delegated("set_property")
    ELSE Failed("RustError", 0, {"receiver", "method", "value", "property"})

\* ClassObject::set_super on class object `self`.
set_super(vts, self, name, receiver) ==
    LET property == get_trait(vts[self], name) IN
    IF property.kind = "None" THEN Failed("RustError", 0, {"method"})
    ELSE IF property.kind = "Virtual" /\ property.set /= -1
        THEN Invoked(get_full_method(vts[self], property.set), receiver)
    ELSE IF property.kind = "Slot" THEN Delegated("set_property")
    ELSE Failed("RustError", 0, {"receiver", "method", "value", "property"})

\* The plain operation on the receiver resolves the name in the table of the
\* receiver's own class; it runs a method only where that entry is one the
\* operation invokes.  Yields the activation it starts, Idle if none.
PlainOnReceiver(vts, via, name, receiver) ==
    LET property == get_trait(vts[receiver], name)
        Run(d) == Invoked(get_full_method(vts[receiver], d), receiver).callee
    IN
    CASE via = "call_property" /\ property.kind = "Method" -> Run(property.id)
      [] via = "get_property" /\ property.kind = "Virtual" /\ property.get /= -1 ->
            Run(property.get)
      [] via = "set_property" /\ property.kind = "Virtual" /\ property.set /= -1 ->
            Run(property.set)
      [] OTHER -> Idle

NoSuper ==
    [op |-> "none", name |-> None, from |-> Idle,
     out |-> [kind |-> "none", error |-> NoError, callee |-> Idle, via |-> None]]

\* The supercall instructions run inside a method bound to a class and are
\* performed on the superclass of that class.
CanSuper == cur /= Idle /\ superclass_object(cur.class) /= None

\* The activation that runs after a supercall operation with outcome `out`.
AfterSuper(out, name) ==
    IF out.kind = "invoke" THEN out.callee
    ELSE IF out.kind = "delegate" /\ PlainOnReceiver(ivtable, out.via, name, cur.receiver) /= Idle
        THEN PlainOnReceiver(ivtable, out.via, name, cur.receiver)
    ELSE cur

SuperStep(op, name, out) ==
    /\ lastSuper' = [op |-> op, name |-> name, from |-> cur, out |-> out]
    /\ cur' = AfterSuper(out, name)
    /\ UNCHANGED <<execVars, classVars, tableVars, objVars, callVars, applyVars, linkVars, textVars, lateVars>>

\* Some method of the table of a constructed instance's class is invoked on
\* that instance.
Enter ==
    /\ cur = Idle
    /\ \E r \in Classes :
         /\ objects[r].made
         /\ \E d \in 0..(Len(ivtable[r].methods) - 1) :
              cur' = Invoked(get_full_method(ivtable[r], d), r).callee
    /\ UNCHANGED lastSuper
    /\ UNCHANGED <<execVars, classVars, tableVars, objVars, callVars, applyVars, linkVars, textVars, lateVars>>

\* The running method and its callers return.
Return ==
    /\ cur /= Idle
    /\ cur' = Idle
    /\ UNCHANGED lastSuper
    /\ UNCHANGED <<execVars, classVars, tableVars, objVars, callVars, applyVars, linkVars, textVars, lateVars>>

CallSuper ==
    /\ CanSuper
    /\ \E name \in SuperNames :
         SuperStep("call_super", name,
                   call_super(ivtable, superclass_object(cur.class), name, cur.receiver))

GetSuper ==
    /\ CanSuper
    /\ \E name \in SuperNames :
         SuperStep("get_super", name,
                   get_super(ivtable, superclass_object(cur.class), name, cur.receiver))

SetSuper ==
    /\ CanSuper
    /\ \E name \in SuperNames :
         SuperStep("set_super", name,
                   set_super(ivtable, superclass_object(cur.class), name, cur.receiver))

SuperNext ==
    InitInstanceVtable \/ ConstructInstance \/ Enter \/ Return \/ CallSuper \/ GetSuper \/ SetSuper

(***************************************************************************)
(*                   Object storage (ScriptObjectData)                     *)
(***************************************************************************)

\* Bounds of the object model.
MaxIndex == 3       \* enumerant indices a caller asks for
MaxSlots == 2       \* slots of the object
MaxDisp == 2        \* dispatch ids of bound methods

PropNames == {"a", "b"}
PropValues == {<<"v1">>, <<"v2">>}
BoundFns == {<<"f1">>, <<"f2">>}

\* Absent values: no value at all, an empty bound-method entry.
NoValue == <<>>
NoFn == <<>>

\* A multiname as the local operations see it: whether it admits the public
\* namespace, and its local name if it has one.
Multinames == [public : BOOLEAN, local : PropNames \cup {None}]
NoName == [public |-> FALSE, local |-> None]
contains_public_namespace(mn) == mn.public
local_name(mn) == mn.local

\* instance_of: no class at all, or a class that is sealed or not and whose
\* table backs some names with traits.
NoClass == [classless |-> TRUE, sealed |-> FALSE, traits |-> {}]
ObjClasses ==
    {NoClass} \cup {[classless |-> FALSE, sealed |-> s, traits |-> t] :
                       s \in BOOLEAN, t \in {{}, {"a"}}}

EmptyMap == [n \in {} |-> NoValue]

\* ScriptObjectData::custom_new.
custom_new(instance_of) ==
    [instance_of |-> instance_of, values |-> EmptyMap, enumerants |-> <<>>,
     slots |-> <<>>, bound_methods |-> <<>>]

NoData == custom_new(NoClass)

\* A plausible slip: classless objects taken as sealed.
is_sealed_classless(d) == d.instance_of.classless \/ d.instance_of.sealed

\* is_sealed: the class's flag, false for a classless object.
is_sealed(d) == IF d.instance_of.classless THEN FALSE ELSE d.instance_of.sealed

\* ScriptObjectData::has_trait: a classless object has no table.
object_has_trait(d, name) ==
    IF d.instance_of.classless THEN FALSE ELSE name \in d.instance_of.traits

Contains(seq, x) == \E i \in 1..Len(seq) : seq[i] = x
RemoveAt(seq, i) == SubSeq(seq, 1, i - 1) \o SubSeq(seq, i + 1, Len(seq))
Put(values, name, value) ==
    [n \in DOMAIN values \cup {name} |-> IF n = name THEN value ELSE values[n]]
Remove(values, name) == [n \in DOMAIN values \ {name} |-> values[n]]

\* The walk of get_property_local along the prototype chain.
RECURSIVE ProtoLookup(_, _, _)
ProtoLookup(chain, i, name) ==
    IF i > Len(chain) THEN NoValue
    ELSE IF name \in DOMAIN chain[i] THEN chain[i][name]
    ELSE ProtoLookup(chain, i + 1, name)

Ok(val) == [res |-> "Ok", val |-> val]
ReferenceError(code) == [res |-> "ReferenceError", val |-> <<code>>]

\* A plausible slip: the sealed check made before the prototype walk.
get_property_local_sealed_first(d, chain, mn) ==
    IF ~contains_public_namespace(mn) THEN ReferenceError("InvalidRead")
    ELSE IF local_name(mn) = None THEN ReferenceError("InvalidRead")
    ELSE IF local_name(mn) \in DOMAIN d.values THEN Ok(d.values[local_name(mn)])
    ELSE IF is_sealed(d) THEN ReferenceError("InvalidRead")
    ELSE IF ProtoLookup(chain, 1, local_name(mn)) /= NoValue
        THEN Ok(ProtoLookup(chain, 1, local_name(mn)))
    ELSE Ok(Undefined)

\* ScriptObjectData::get_property_local.
get_property_local(d, chain, mn) ==
    IF ~contains_public_namespace(mn) THEN ReferenceError("InvalidRead")
    ELSE IF local_name(mn) = None THEN ReferenceError("InvalidRead")
    ELSE IF local_name(mn) \in DOMAIN d.values THEN Ok(d.values[local_name(mn)])
    ELSE IF ProtoLookup(chain, 1, local_name(mn)) /= NoValue
        THEN Ok(ProtoLookup(chain, 1, local_name(mn)))
    ELSE IF is_sealed(d) THEN ReferenceError("InvalidRead")
    ELSE Ok(Undefined)

\* A plausible slip: the enumerant pushed on every write.
set_property_local_always_push(d, mn, value) ==
    IF is_sealed(d) \/ ~contains_public_namespace(mn)
        THEN [res |-> "ReferenceError", data |-> d]
    ELSE IF local_name(mn) = None THEN [res |-> "ReferenceError", data |-> d]
    ELSE [res |-> "Ok",
          data |-> [d EXCEPT !.enumerants = Append(@, local_name(mn)),
                             !.values = Put(@, local_name(mn), value)]]

\* A plausible slip: the sealed check forgotten.
set_property_local_unsealed(d, mn, value) ==
    IF ~contains_public_namespace(mn) THEN [res |-> "ReferenceError", data |-> d]
    ELSE IF local_name(mn) = None THEN [res |-> "ReferenceError", data |-> d]
    ELSE IF local_name(mn) \in DOMAIN d.values
        THEN [res |-> "Ok", data |-> [d EXCEPT !.values = Put(@, local_name(mn), value)]]
    ELSE [res |-> "Ok",
          data |-> [d EXCEPT !.enumerants = Append(@, local_name(mn)),
                             !.values = Put(@, local_name(mn), value)]]

\* A plausible slip: a write relists the name at the end.
set_property_local_relisted(d, mn, value) ==
    IF is_sealed(d) \/ ~contains_public_namespace(mn)
        THEN [res |-> "ReferenceError", data |-> d]
    ELSE IF local_name(mn) = None THEN [res |-> "ReferenceError", data |-> d]
    ELSE [res |-> "Ok",
          data |-> [d EXCEPT !.enumerants =
                                 Append(SelectSeq(@, LAMBDA n : n /= local_name(mn)),
                                        local_name(mn)),
                             !.values = Put(@, local_name(mn), value)]]

\* ScriptObjectData::set_property_local.
set_property_local(d, mn, value) ==
    IF is_sealed(d) \/ ~contains_public_namespace(mn)
        THEN [res |-> "ReferenceError", data |-> d]
    ELSE IF local_name(mn) = None THEN [res |-> "ReferenceError", data |-> d]
    ELSE IF local_name(mn) \in DOMAIN d.values
        THEN [res |-> "Ok", data |-> [d EXCEPT !.values = Put(@, local_name(mn), value)]]
    ELSE [res |-> "Ok",
          data |-> [d EXCEPT !.enumerants = Append(@, local_name(mn)),
                             !.values = Put(@, local_name(mn), value)]]

\* ScriptObjectData::init_property_local.
init_property_local(d, mn, value) == set_property_local(d, mn, value)

\* The last index at which the name is listed (0 if it is not).
LastIndexOf(seq, name) ==
    IF Contains(seq, name)
    THEN CHOOSE i \in 1..Len(seq) :
            seq[i] = name /\ \A j \in (i + 1)..Len(seq) : seq[j] /= name
    ELSE 0

\* A plausible slip: the name listed without looking at the map.
set_local_property_is_enumerable_any_name(d, name, is_enumerable) ==
    IF is_enumerable /\ ~Contains(d.enumerants, name)
        THEN [d EXCEPT !.enumerants = Append(@, name)]
    ELSE IF ~is_enumerable /\ Contains(d.enumerants, name)
        THEN [d EXCEPT !.enumerants = RemoveAt(@, LastIndexOf(@, name))]
    ELSE d

\* ScriptObjectData::set_local_property_is_enumerable.
set_local_property_is_enumerable(d, name, is_enumerable) ==
    IF is_enumerable /\ name \in DOMAIN d.values /\ ~Contains(d.enumerants, name)
        THEN [d EXCEPT !.enumerants = Append(@, name)]
    ELSE IF ~is_enumerable /\ Contains(d.enumerants, name)
        THEN [d EXCEPT !.enumerants = RemoveAt(@, LastIndexOf(@, name))]
    ELSE d

\* ScriptObjectData::delete_property_local.
delete_property_local(d, mn) ==
    IF ~contains_public_namespace(mn) THEN [ret |-> FALSE, data |-> d]
    ELSE IF local_name(mn) /= None
        THEN [ret |-> TRUE,
              data |-> [set_local_property_is_enumerable(d, local_name(mn), FALSE)
                           EXCEPT !.values = Remove(@, local_name(mn))]]
    ELSE [ret |-> FALSE, data |-> d]

\* u32 saturating_add(1), applied only to an index below the length of the
\* enumerant vector, where it cannot saturate.
saturating_add_1(n) == n + 1

\* A plausible slip: zero-based enumerant indices.
get_next_enumerant_zero_based(d, last_index) ==
    IF last_index + 1 < Len(d.enumerants)
    THEN [res |-> "Some", n |-> saturating_add_1(last_index)]
    ELSE [res |-> "None", n |-> 0]

\* ScriptObjectData::get_next_enumerant.
get_next_enumerant(d, last_index) ==
    IF last_index < Len(d.enumerants)
    THEN [res |-> "Some", n |-> saturating_add_1(last_index)]
    ELSE [res |-> "None", n |-> 0]

\* ScriptObjectData::get_enumerant_name: checked_sub(1), then get.
get_enumerant_name(d, index) ==
    IF index - 1 < 0 THEN [res |-> "None", val |-> NoValue]
    ELSE IF index - 1 < Len(d.enumerants)
        THEN [res |-> "Some", val |-> <<d.enumerants[index]>>]
    ELSE [res |-> "None", val |-> NoValue]

\* ScriptObjectData::get_slot.
get_slot(d, id) ==
    IF id < Len(d.slots) THEN [res |-> "Ok", val |-> d.slots[id + 1]]
    ELSE [res |-> "Err", val |-> NoValue]

\* A plausible slip: the vector grown to fit the id, as install_const_slot_late does.
set_slot_growing(d, id, value) ==
    [res |-> "Ok",
     data |-> [d EXCEPT !.slots =
                  [i \in 1..(IF id + 1 > Len(@) THEN id + 1 ELSE Len(@)) |->
                      IF i = id + 1 THEN value
                      ELSE IF i <= Len(@) THEN @[i] ELSE Undefined]]]

\* ScriptObjectData::set_slot.
set_slot(d, id, value) ==
    IF id < Len(d.slots)
    THEN [res |-> "Ok", data |-> [d EXCEPT !.slots[id + 1] = value]]
    ELSE [res |-> "Err", data |-> d]

\* ScriptObjectData::init_slot.
init_slot(d, id, value) ==
    IF id < Len(d.slots)
    THEN [res |-> "Ok", data |-> [d EXCEPT !.slots[id + 1] = value]]
    ELSE [res |-> "Err", data |-> d]

\* A plausible slip: an entry already installed is kept.
install_bound_method_keep_first(d, disp_id, function) ==
    LET n == IF Len(d.bound_methods) <= disp_id THEN disp_id + 1 ELSE Len(d.bound_methods)
        grown == [i \in 1..n |-> IF i <= Len(d.bound_methods) THEN d.bound_methods[i] ELSE NoFn]
    IN [d EXCEPT !.bound_methods =
           IF grown[disp_id + 1] = NoFn THEN [grown EXCEPT ![disp_id + 1] = function]
           ELSE grown]

\* ScriptObjectData::install_bound_method: resize_with(disp_id + 1) when the
\* table is too short, then store.
install_bound_method(d, disp_id, function) ==
    LET n == IF Len(d.bound_methods) <= disp_id THEN disp_id + 1 ELSE Len(d.bound_methods)
        grown == [i \in 1..n |-> IF i <= Len(d.bound_methods) THEN d.bound_methods[i] ELSE NoFn]
    IN [d EXCEPT !.bound_methods = [grown EXCEPT ![disp_id + 1] = function]]

\* ScriptObjectData::get_bound_method.
get_bound_method(d, id) ==
    IF id < Len(d.bound_methods) THEN d.bound_methods[id + 1] ELSE NoFn

\* The observation an operation leaves.
Op(op, mn, value, index, res, ret) ==
    [op |-> op, mn |-> mn, value |-> value, index |-> index, res |-> res, ret |-> ret]

NoOp == Op("none", NoName, NoValue, 0, "none", NoValue)

Bool(b) == IF b THEN "true" ELSE "false"

\* Prototype chains: two prototypes, each holding any of the names.
ProtoMaps(tag) == {[n \in S |-> <<tag, n>>] : S \in SUBSET PropNames}

GetPropertyLocal ==
    /\ \E mn \in Multinames :
         LET r == get_property_local(obj, protos, mn) IN
         lastOp' = Op("get_property_local", mn, NoValue, 0, r.res, r.val)
    /\ UNCHANGED <<obj, protos>>
    /\ UNCHANGED <<execVars, classVars, tableVars, superVars, callVars, applyVars, linkVars, textVars, lateVars>>

SetPropertyLocal ==
    /\ \E mn \in Multinames, value \in PropValues :
         LET r == set_property_local(obj, mn, value) IN
         /\ obj' = r.data
         /\ lastOp' = Op("set_property_local", mn, value, 0, r.res, NoValue)
    /\ UNCHANGED protos
    /\ UNCHANGED <<execVars, classVars, tableVars, superVars, callVars, applyVars, linkVars, textVars, lateVars>>

InitPropertyLocal ==
    /\ \E mn \in Multinames, value \in PropValues :
         LET r == init_property_local(obj, mn, value) IN
         /\ obj' = r.data
         /\ lastOp' = Op("init_property_local", mn, value, 0, r.res, NoValue)
    /\ UNCHANGED protos
    /\ UNCHANGED <<execVars, classVars, tableVars, superVars, callVars, applyVars, linkVars, textVars, lateVars>>

DeletePropertyLocal ==
    /\ \E mn \in Multinames :
         LET r == delete_property_local(obj, mn) IN
         /\ obj' = r.data
         /\ lastOp' = Op("delete_property_local", mn, NoValue, 0, Bool(r.ret), NoValue)
    /\ UNCHANGED protos
    /\ UNCHANGED <<execVars, classVars, tableVars, superVars, callVars, applyVars, linkVars, textVars, lateVars>>

SetLocalPropertyIsEnumerable ==
    /\ \E name \in PropNames, is_enumerable \in BOOLEAN :
         /\ obj' = set_local_property_is_enumerable(obj, name, is_enumerable)
         /\ lastOp' = Op("set_local_property_is_enumerable",
                         [public |-> TRUE, local |-> name], NoValue, 0,
                         Bool(is_enumerable), NoValue)
    /\ UNCHANGED protos
    /\ UNCHANGED <<execVars, classVars, tableVars, superVars, callVars, applyVars, linkVars, textVars, lateVars>>

GetNextEnumerant ==
    /\ \E last_index \in 0..MaxIndex :
         LET r == get_next_enumerant(obj, last_index) IN
         lastOp' = Op("get_next_enumerant", NoName, NoValue, last_index, r.res, <<r.n>>)
    /\ UNCHANGED <<obj, protos>>
    /\ UNCHANGED <<execVars, classVars, tableVars, superVars, callVars, applyVars, linkVars, textVars, lateVars>>

GetEnumerantName ==
    /\ \E index \in 0..MaxIndex :
         LET r == get_enumerant_name(obj, index) IN
         lastOp' = Op("get_enumerant_name", NoName, NoValue, index, r.res, r.val)
    /\ UNCHANGED <<obj, protos>>
    /\ UNCHANGED <<execVars, classVars, tableVars, superVars, callVars, applyVars, linkVars, textVars, lateVars>>

ObjectNext ==
    \/ GetPropertyLocal \/ SetPropertyLocal \/ InitPropertyLocal \/ DeletePropertyLocal
    \/ SetLocalPropertyIsEnumerable \/ GetNextEnumerant \/ GetEnumerantName

GetSlot ==
    /\ \E id \in 0..MaxSlots :
         LET r == get_slot(obj, id) IN
         lastOp' = Op("get_slot", NoName, NoValue, id, r.res, r.val)
    /\ UNCHANGED <<obj, protos>>
    /\ UNCHANGED <<execVars, classVars, tableVars, superVars, callVars, applyVars, linkVars, textVars, lateVars>>

SetSlot ==
    /\ \E id \in 0..MaxSlots, value \in PropValues :
         LET r == set_slot(obj, id, value) IN
         /\ obj' = r.data
         /\ lastOp' = Op("set_slot", NoName, value, id, r.res, NoValue)
    /\ UNCHANGED protos
    /\ UNCHANGED <<execVars, classVars, tableVars, superVars, callVars, applyVars, linkVars, textVars, lateVars>>

InitSlot ==
    /\ \E id \in 0..MaxSlots, value \in PropValues :
         LET r == init_slot(obj, id, value) IN
         /\ obj' = r.data
         /\ lastOp' = Op("init_slot", NoName, value, id, r.res, NoValue)
    /\ UNCHANGED protos
    /\ UNCHANGED <<execVars, classVars, tableVars, superVars, callVars, applyVars, linkVars, textVars, lateVars>>

InstallBoundMethod ==
    /\ \E disp_id \in 0..MaxDisp, function \in BoundFns :
         /\ obj' = install_bound_method(obj, disp_id, function)
         /\ lastOp' = Op("install_bound_method", NoName, function, disp_id, "Ok", NoValue)
    /\ UNCHANGED protos
    /\ UNCHANGED <<execVars, classVars, tableVars, superVars, callVars, applyVars, linkVars, textVars, lateVars>>

GetBoundMethod ==
    /\ \E id \in 0..(MaxDisp + 1) :
         lastOp' = Op("get_bound_method", NoName, NoValue, id,
                      IF get_bound_method(obj, id) = NoFn THEN "None" ELSE "Some",
                      get_bound_method(obj, id))
    /\ UNCHANGED <<obj, protos>>
    /\ UNCHANGED <<execVars, classVars, tableVars, superVars, callVars, applyVars, linkVars, textVars, lateVars>>

SlotsNext == GetSlot \/ SetSlot \/ InitSlot \/ InstallBoundMethod \/ GetBoundMethod

(***************************************************************************)
(*          One invocation of Executable::exec, seen from outside          *)
(***************************************************************************)

NoOut == [path |-> "none", why |-> None, receiver |-> None, nargs |-> 0]

NoCall ==
    [exec |-> [kind |-> None, method |-> None, bound_receiver |-> None,
               bound_superclass |-> None, sig |-> 0, variadic |-> FALSE,
               unchecked |-> FALSE],
     unbound |-> None, nargs |-> 0, fault |-> None, phase |-> "none", out |-> NoOut,
     pushed |-> 0]

\* exec is entered with the inputs drawn for this invocation: an early
\* error returns at once; otherwise the frame is pushed and the body runs on
\* the resolved receiver with the arguments exec hands it.
CallExec ==
    /\ call.phase = "ready"
    /\ LET p == ExecPrologue(call.exec, call.unbound, call.nargs, call.fault) IN
       IF p.path = "early"
       THEN /\ call' = [call EXCEPT !.phase = "returned", !.out = p]
            /\ UNCHANGED stack
       ELSE /\ stack' = push(stack, call.exec)
            /\ call' = [call EXCEPT !.phase = "running", !.out = p, !.pushed = 1]
    /\ UNCHANGED <<frames, lastExit>>
    /\ UNCHANGED <<classVars, tableVars, superVars, objVars, applyVars, linkVars, textVars, lateVars>>

\* The body returns (Ok or Err); exec pops its frame and returns the result.
CallBodyReturn ==
    /\ call.phase = "running"
    /\ \E ret \in {"ok", "err"} :
         /\ stack' = ExecEpilogue(stack, ret)
         /\ call' = [call EXCEPT !.phase = "returned"]
    /\ UNCHANGED <<frames, lastExit>>
    /\ UNCHANGED <<classVars, tableVars, superVars, objVars, applyVars, linkVars, textVars, lateVars>>

CallNext == CallExec \/ CallBodyReturn

(***************************************************************************)
(*                 Generic specialization (ClassObject::apply)             *)
(***************************************************************************)

\* Bound of the apply model.
MaxTypeArgs == 2    \* type parameters handed to one apply

\* The values a caller may hand to apply: null, class objects, and a value
\* that is no class object.
ParamClasses == {"int", "Number"}
ParamValues == {"Null", "notclass"} \cup ParamClasses

\* The keys of the applications map: None (the parameter `*`) and class objects.
Star == "*"
ParamKeys == {Star} \cup ParamClasses

\* ClassObjectData::params: None flags a class that has not been specialized.
Unapplied == "unapplied"

\* The class objects of the model are the entries of the arena; the generic
\* class is the first one, a class object the host has built the second.
GenericId == 1
HostId == 2

NoGeneric == [is_generic |-> FALSE, applications |-> [k \in {} |-> 0], host |-> FALSE]

ApplyErr(err, g, ar) ==
    [res |-> "Err", err |-> err, ret |-> 0, generic |-> g, arena |-> ar]

\* Value::Null becomes None; any other value must be a class object.
ObjectParam(v) == IF v = "Null" THEN Star ELSE v

\* A plausible slip: a new specialization on every call, the cache never consulted.
apply_uncached(g, ar, nullable_params, fault) ==
    IF ~g.is_generic THEN ApplyErr("Error1127", g, ar)
    ELSE IF Len(nullable_params) /= 1 THEN ApplyErr("TypeError1128", g, ar)
    ELSE IF nullable_params[1] = "notclass" THEN ApplyErr("RustError", g, ar)
    ELSE IF fault = "from_class" THEN ApplyErr("from_class", g, ar)
    ELSE [res |-> "Ok", err |-> None, ret |-> Len(ar) + 1,
          generic |-> [g EXCEPT !.applications =
                          [k \in DOMAIN @ \cup {ObjectParam(nullable_params[1])} |->
                              IF k = ObjectParam(nullable_params[1]) THEN Len(ar) + 1
                              ELSE @[k]]],
          arena |-> Append(ar, [params |-> ObjectParam(nullable_params[1])])]

\* A plausible slip: the arity error built with argument_error, as ClassObject::call does.
apply_arity_argument_error(g, ar, nullable_params, fault) ==
    IF ~g.is_generic THEN ApplyErr("Error1127", g, ar)
    ELSE IF Len(nullable_params) /= 1 THEN ApplyErr("ArgumentError1128", g, ar)
    ELSE IF nullable_params[1] = "notclass" THEN ApplyErr("RustError", g, ar)
    ELSE IF ObjectParam(nullable_params[1]) \in DOMAIN g.applications
        THEN [res |-> "Ok", err |-> None,
              ret |-> g.applications[ObjectParam(nullable_params[1])],
              generic |-> g, arena |-> ar]
    ELSE IF fault = "from_class" THEN ApplyErr("from_class", g, ar)
    ELSE [res |-> "Ok", err |-> None, ret |-> Len(ar) + 1,
          generic |-> [g EXCEPT !.applications =
                          [k \in DOMAIN @ \cup {ObjectParam(nullable_params[1])} |->
                              IF k = ObjectParam(nullable_params[1]) THEN Len(ar) + 1
                              ELSE @[k]]],
          arena |-> Append(ar, [params |-> ObjectParam(nullable_params[1])])]

\* A plausible slip: the class object cached before it is finished.
apply_cached_early(g, ar, nullable_params, fault) ==
    IF ~g.is_generic THEN ApplyErr("Error1127", g, ar)
    ELSE IF Len(nullable_params) /= 1 THEN ApplyErr("TypeError1128", g, ar)
    ELSE IF nullable_params[1] = "notclass" THEN ApplyErr("RustError", g, ar)
    ELSE IF ObjectParam(nullable_params[1]) \in DOMAIN g.applications
        THEN [res |-> "Ok", err |-> None,
              ret |-> g.applications[ObjectParam(nullable_params[1])],
              generic |-> g, arena |-> ar]
    ELSE LET cached ==
                [g EXCEPT !.applications =
                    [k \in DOMAIN @ \cup {ObjectParam(nullable_params[1])} |->
                        IF k = ObjectParam(nullable_params[1]) THEN Len(ar) + 1
                        ELSE @[k]]]
             made == Append(ar, [params |-> ObjectParam(nullable_params[1])])
         IN IF fault = "from_class" THEN ApplyErr("from_class", cached, made)
            ELSE [res |-> "Ok", err |-> None, ret |-> Len(ar) + 1,
                  generic |-> cached, arena |-> made]

\* ClassObject::apply on the generic class g.
apply(g, ar, nullable_params, fault) ==
    IF ~g.is_generic THEN ApplyErr("Error1127", g, ar)
    ELSE IF Len(nullable_params) /= 1 THEN ApplyErr("TypeError1128", g, ar)
    ELSE IF nullable_params[1] = "notclass" THEN ApplyErr("RustError", g, ar)
    ELSE IF ObjectParam(nullable_params[1]) \in DOMAIN g.applications
        THEN [res |-> "Ok", err |-> None,
              ret |-> g.applications[ObjectParam(nullable_params[1])],
              generic |-> g, arena |-> ar]
    ELSE IF fault = "from_class" THEN ApplyErr("from_class", g, ar)
    ELSE [res |-> "Ok", err |-> None, ret |-> Len(ar) + 1,
          generic |-> [g EXCEPT !.applications =
                          [k \in DOMAIN @ \cup {ObjectParam(nullable_params[1])} |->
                              IF k = ObjectParam(nullable_params[1]) THEN Len(ar) + 1
                              ELSE @[k]]],
          arena |-> Append(ar, [params |-> ObjectParam(nullable_params[1])])]

\* ClassObject::add_application: insert, whatever was there.
add_application(g, param, cls) ==
    [g EXCEPT !.applications =
        [k \in DOMAIN @ \cup {param} |-> IF k = param THEN cls ELSE @[k]],
              !.host = TRUE]

NoApply == [args |-> <<>>, res |-> "none", err |-> None, ret |-> 0]

\* The argument lists handed to apply: any single value, and lists of other
\* lengths, of which apply inspects the length only.
TypeArgs ==
    {<<v>> : v \in ParamValues} \cup {[i \in 1..n |-> "Null"] : n \in (0..MaxTypeArgs) \ {1}}

Apply ==
    /\ \E nullable_params \in TypeArgs, fault \in {"none", "from_class"} :
         LET r == apply(generic, arena, nullable_params, fault) IN
         /\ generic' = r.generic
         /\ arena' = r.arena
         /\ lastApply' = [args |-> nullable_params, res |-> r.res, err |-> r.err,
                          ret |-> r.ret]
    /\ UNCHANGED <<execVars, classVars, tableVars, superVars, objVars, callVars, linkVars, textVars, lateVars>>

\* The host registers a class object it has built as the application for a
\* parameter.
AddApplication ==
    /\ \E param \in ParamKeys :
         generic' = add_application(generic, param, HostId)
    /\ UNCHANGED <<arena, lastApply>>
    /\ UNCHANGED <<execVars, classVars, tableVars, superVars, objVars, callVars, linkVars, textVars, lateVars>>

ApplyNext == Apply \/ AddApplication

(***************************************************************************)
(*               Calling a class value (ClassObject::call)                 *)
(***************************************************************************)

ArgValues == {"x", "y"}
Arguments == UNION {[1..n -> ArgValues] : n \in 0..MaxArgs}

\* The call handlers a class descriptor may carry: none, or a method.
NoHandler == [kind |-> None, sig |-> 0, variadic |-> FALSE, unchecked |-> FALSE]
CallHandlers ==
    {NoHandler} \cup
        [kind : ExecKinds, sig : 0..MaxSig, variadic : BOOLEAN, unchecked : BOOLEAN]

\* Executable::from_method(call_handler, scope, None, Some(self)).
HandlerExec(cls, h) ==
    [kind |-> h.kind, method |-> "call_handler", bound_receiver |-> None,
     bound_superclass |-> cls, sig |-> h.sig, variadic |-> h.variadic,
     unchecked |-> h.unchecked]

\* Value::coerce_to_type: the value as a value of the class's type.
coerce_to_type(v, cls) == <<"coerced", v, cls>>

ClassCallOut(via, res, err, val, passed) ==
    [via |-> via, res |-> res, err |-> err, val |-> val, passed |-> passed]

\* A plausible slip: extra arguments ignored, the first one coerced.
class_call_lenient(cls, h, receiver, arguments, fault, ret) ==
    IF h /= NoHandler THEN
        LET p == ExecPrologue(HandlerExec(cls, h), receiver, Len(arguments), fault) IN
        IF p.path = "early"
        THEN ClassCallOut("exec", "Err", p.why, NoValue, Len(arguments))
        ELSE ClassCallOut("exec", IF ret = "ok" THEN "Ok" ELSE "Err",
                          IF ret = "ok" THEN None ELSE "body",
                          <<"handler", p.receiver, p.nargs>>, Len(arguments))
    ELSE IF Len(arguments) >= 1 THEN
        IF fault = "coerce" THEN ClassCallOut("coerce", "Err", "coerce", NoValue, 0)
        ELSE ClassCallOut("coerce", "Ok", None, coerce_to_type(arguments[1], cls), 0)
    ELSE ClassCallOut("arity", "Err", "ArgumentError1112", NoValue, 0)

\* ClassObject::call: the handler, if the class has one, is executed with the
\* caller's receiver and arguments; else one argument is coerced to the
\* class's type; else argument_error #1112.
class_call(cls, h, receiver, arguments, fault, ret) ==
    IF h /= NoHandler THEN
        LET p == ExecPrologue(HandlerExec(cls, h), receiver, Len(arguments), fault) IN
        IF p.path = "early"
        THEN ClassCallOut("exec", "Err", p.why, NoValue, Len(arguments))
        ELSE ClassCallOut("exec", IF ret = "ok" THEN "Ok" ELSE "Err",
                          IF ret = "ok" THEN None ELSE "body",
                          <<"handler", p.receiver, p.nargs>>, Len(arguments))
    ELSE IF Len(arguments) = 1 THEN
        IF fault = "coerce" THEN ClassCallOut("coerce", "Err", "coerce", NoValue, 0)
        ELSE ClassCallOut("coerce", "Ok", None, coerce_to_type(arguments[1], cls), 0)
    ELSE ClassCallOut("arity", "Err", "ArgumentError1112", NoValue, 0)

NoClassCall ==
    [op |-> "none", class |-> None, handler |-> NoHandler, receiver |-> None,
     args |-> <<>>, fault |-> None,
     out |-> ClassCallOut("none", "none", None, NoValue, 0)]

\* A class value is called as a function.
ClassCall ==
    /\ lastCall.op = "ready"
    /\ \E ret \in {"ok", "err"} :
         lastCall' = [lastCall EXCEPT
                         !.op = "call",
                         !.out = class_call(lastCall.class, lastCall.handler,
                                            lastCall.receiver, lastCall.args,
                                            lastCall.fault, ret)]
    /\ UNCHANGED <<ctor, klass, ifc>>
    /\ UNCHANGED <<execVars, classVars, tableVars, superVars, objVars, callVars,
                   applyVars, textVars, lateVars>>

ClassCallNext == ClassCall

(***************************************************************************)
(*                         ClassObject::construct                          *)
(***************************************************************************)

\* The initializers a class object records: `constructor` is the descriptor's
\* instance_init, `native_constructor` its native_instance_init, which may be
\* the same method or a separate native one.
CtorClasses ==
    [constructor : {"instance_init"}, native_constructor : {"instance_init", "native_init"}]

NoInstance == [made |-> FALSE, slots |-> <<>>]

NoCtor ==
    [phase |-> "none",
     class |-> [constructor |-> None, native_constructor |-> None],
     defaults |-> <<>>, args |-> <<>>, fault |-> None, instance |-> NoInstance,
     log |-> <<>>, res |-> "none", ret |-> NoInstance]

\* A plausible slip: the native initializer preferred when the class has one.
call_init_native_first(cls) ==
    IF cls.native_constructor /= cls.constructor THEN cls.native_constructor
    ELSE cls.constructor

\* ClassObject::call_init: the method it hands to exec.
call_init(cls) == cls.constructor

\* ClassObject::call_native_init: the method it hands to exec.
call_native_init(cls) == cls.native_constructor

\* construct: the instance allocator is invoked; its error is returned.
CtorAllocate ==
    /\ ctor.phase = "ready"
    /\ ctor' = IF ctor.fault = "allocator"
               THEN [ctor EXCEPT !.phase = "failed", !.res = "Err",
                                 !.log = Append(@, <<"allocator">>)]
               ELSE [ctor EXCEPT !.phase = "allocated",
                                 !.instance = [made |-> TRUE, slots |-> <<>>],
                                 !.log = Append(@, <<"allocator">>)]
    /\ UNCHANGED <<lastCall, klass, ifc>>
    /\ UNCHANGED <<execVars, classVars, tableVars, superVars, objVars, callVars,
                   applyVars, textVars, lateVars>>

\* construct: instance.install_instance_slots.
CtorInstallSlots ==
    /\ ctor.phase = "allocated"
    /\ ctor' = [ctor EXCEPT
                   !.phase = "slots",
                   !.instance.slots =
                       install_instance_slots(@, [VTableEmpty EXCEPT
                                                     !.default_slots = ctor.defaults]),
                   !.log = Append(@, <<"install_instance_slots">>)]
    /\ UNCHANGED <<lastCall, klass, ifc>>
    /\ UNCHANGED <<execVars, classVars, tableVars, superVars, objVars, callVars,
                   applyVars, textVars, lateVars>>

\* construct: call_init(instance, arguments); its error is returned, else the
\* instance.
CtorCallInit ==
    /\ ctor.phase = "slots"
    /\ ctor' = IF ctor.fault = "call_init"
               THEN [ctor EXCEPT !.phase = "failed", !.res = "Err",
                                 !.log = Append(@, <<"exec", call_init(ctor.class), ctor.args>>)]
               ELSE [ctor EXCEPT !.phase = "done", !.res = "Ok", !.ret = ctor.instance,
                                 !.log = Append(@, <<"exec", call_init(ctor.class), ctor.args>>)]
    /\ UNCHANGED <<lastCall, klass, ifc>>
    /\ UNCHANGED <<execVars, classVars, tableVars, superVars, objVars, callVars,
                   applyVars, textVars, lateVars>>

ConstructNext == CtorAllocate \/ CtorInstallSlots \/ CtorCallInit

(***************************************************************************)
(*                      ClassObject::link_interfaces                       *)
(***************************************************************************)

\* The descriptors the domain resolves: the class K being linked, a class S,
\* and the interfaces I and J.  X is a name the domain does not resolve.
Types == {"K", "S", "I", "J"}

Public == "public"

\* Qualified names of traits: <<namespace, local name>>.
QName(ns, name) == <<ns, name>>
IsPublic(q) == q[1] = Public

\* The direct_interfaces lists and instance traits the loader may hand over.
DirectOf ==
    [K |-> {<<>>, <<"I">>, <<"J">>, <<"I", "J">>, <<"J", "I">>, <<"I", "I">>, <<"S">>, <<"X">>},
     S |-> {<<>>, <<"I">>, <<"J">>, <<"J", "I">>},
     I |-> {<<>>, <<"J">>, <<"I">>},
     J |-> {<<>>, <<"I">>}]
SuperOf == [K |-> {None, "S"}, S |-> {None}, I |-> {None}, J |-> {None}]
TraitsOf ==
    [K |-> {<<>>}, S |-> {<<>>},
     I |-> {<<>>, <<QName("I", "m")>>, <<QName("I", "m"), QName(Public, "p")>>},
     J |-> {<<>>, <<QName("J", "n")>>}]

\* The instance tables K may have when its interfaces are linked: entries for
\* the interface-namespaced names it resolves, and perhaps a public m of its own.
IfaceTables ==
    {[q \in S |-> Method(IF q = QName("I", "m") THEN 1 ELSE IF q = QName("J", "n") THEN 2 ELSE 3)] :
        S \in SUBSET {QName("I", "m"), QName("J", "n"), QName(Public, "m")}}

Last(seq) == seq[Len(seq)]
Front(seq) == SubSeq(seq, 1, Len(seq) - 1)
Elems(seq) == {seq[i] : i \in 1..Len(seq)}

\* The body of `for interface_name in cls.direct_interfaces()`: resolve, refuse
\* a class that is no interface, and queue and list an interface seen for the
\* first time.
RECURSIVE ForInterfaces(_, _, _, _)
ForInterfaces(descs, names, i, st) ==
    IF i > Len(names) THEN st
    ELSE IF names[i] \notin Types THEN [st EXCEPT !.ok = FALSE, !.err = "resolve"]
    ELSE IF ~descs[names[i]].is_interface
        THEN [st EXCEPT !.ok = FALSE, !.err = "not an interface"]
    ELSE IF names[i] \notin st.dedup
        THEN ForInterfaces(descs, names, i + 1,
                 [st EXCEPT !.dedup = @ \cup {names[i]},
                            !.queue = Append(@, names[i]),
                            !.interfaces = Append(@, names[i])])
    ELSE ForInterfaces(descs, names, i + 1, st)

\* A plausible slip: the superclass of the class taken from the queue not followed.
link_pop_no_super(descs, st) ==
    ForInterfaces(descs, descs[Last(st.queue)].direct_interfaces, 1,
                  [st EXCEPT !.queue = Front(@)])

\* One turn of `while let Some(cls) = queue.pop()`.
link_pop(descs, st) ==
    LET cls == Last(st.queue)
        st1 == ForInterfaces(descs, descs[cls].direct_interfaces, 1,
                             [st EXCEPT !.queue = Front(@)])
    IN
    IF ~st1.ok THEN st1
    ELSE IF descs[cls].super_class_name = None THEN st1
    ELSE IF descs[cls].super_class_name \notin Types
        THEN [st1 EXCEPT !.ok = FALSE, !.err = "resolve"]
    ELSE [st1 EXCEPT !.queue = Append(@, descs[cls].super_class_name)]

\* VTable::copy_property_for_interface: the public name made an alias of the
\* property the interface-namespaced name resolves to.
copy_property_for_interface(vt, public_name, interface_name) ==
    IF interface_name \in DOMAIN vt.props
    THEN [vt EXCEPT !.props = Insert(@, public_name, vt.props[interface_name])]
    ELSE vt

\* `for interface_trait in iface.instance_traits()`: an alias for every trait
\* that is not public.
RECURSIVE CopyTraits(_, _, _)
CopyTraits(vt, ts, i) ==
    IF i > Len(ts) THEN vt
    ELSE IF ~IsPublic(ts[i])
        THEN CopyTraits(copy_property_for_interface(vt, QName(Public, ts[i][2]), ts[i]),
                        ts, i + 1)
    ELSE CopyTraits(vt, ts, i + 1)

\* The interfaces the superclass of K implements already.
RECURSIVE Closure(_, _, _)
Closure(descs, seen, n) ==
    IF n = 0 THEN seen
    ELSE Closure(descs,
                 seen \cup UNION {(Elems(descs[t].direct_interfaces) \cap Types)
                                     \cup ({descs[t].super_class_name} \cap Types) :
                                  t \in seen},
                 n - 1)

\* A plausible slip: aliases made only for the interfaces the superclass does
\* not implement already.
RECURSIVE link_copy_new_only(_, _, _, _)
link_copy_new_only(descs, vt, interfaces, i) ==
    IF i > Len(interfaces) THEN vt
    ELSE IF descs["K"].super_class_name /= None
            /\ interfaces[i] \in Closure(descs, {descs["K"].super_class_name}, 4)
        THEN link_copy_new_only(descs, vt, interfaces, i + 1)
    ELSE link_copy_new_only(descs,
             CopyTraits(vt, descs[interfaces[i]].instance_traits, 1), interfaces, i + 1)

\* `for interface in &read.interfaces`: the aliases of every listed interface.
RECURSIVE link_copy(_, _, _, _)
link_copy(descs, vt, interfaces, i) ==
    IF i > Len(interfaces) THEN vt
    ELSE link_copy(descs, CopyTraits(vt, descs[interfaces[i]].instance_traits, 1),
                   interfaces, i + 1)

NoLoop == [ok |-> TRUE, err |-> None, queue |-> <<>>, dedup |-> {}, interfaces |-> <<>>]

NoIfc ==
    [phase |-> "none", descs |-> <<>>, loop |-> NoLoop, written |-> <<>>,
     written0 |-> <<>>, vt |-> VTableEmpty, vt0 |-> VTableEmpty]

\* link_interfaces is entered: the queue holds the class itself.
LinkStart ==
    /\ ifc.phase = "ready"
    /\ ifc' = [ifc EXCEPT !.phase = "loop", !.loop = [NoLoop EXCEPT !.queue = <<"K">>]]
    /\ UNCHANGED <<lastCall, ctor, klass>>
    /\ UNCHANGED <<execVars, classVars, tableVars, superVars, objVars, callVars,
                   applyVars, textVars, lateVars>>

\* The direct_interfaces lists of a class whose linking may fail after an
\* interface was listed.
RelinkDirect == {<<"X">>, <<"S">>, <<"I", "X">>, <<"I", "S">>, <<"I", "J">>}

\* The interface lists a class object may hold from an earlier linking.
StoredLists == {<<>>, <<"J">>, <<"I", "J">>}

\* A plausible slip: the interfaces pushed onto the stored list itself, not
\* onto a local vector.
LinkPop_stored_in_loop ==
    /\ ifc.phase = "loop"
    /\ ifc.loop.queue /= <<>>
    /\ LET st == link_pop(ifc.descs, ifc.loop) IN
       ifc' = [ifc EXCEPT !.loop = st, !.phase = IF st.ok THEN "loop" ELSE "failed",
                          !.written = st.interfaces]
    /\ UNCHANGED <<lastCall, ctor, klass>>
    /\ UNCHANGED <<execVars, classVars, tableVars, superVars, objVars, callVars,
                   applyVars, textVars, lateVars>>

\* One class is taken from the queue; an error ends link_interfaces.
LinkPop ==
    /\ ifc.phase = "loop"
    /\ ifc.loop.queue /= <<>>
    /\ LET st == link_pop(ifc.descs, ifc.loop) IN
       ifc' = [ifc EXCEPT !.loop = st, !.phase = IF st.ok THEN "loop" ELSE "failed"]
    /\ UNCHANGED <<lastCall, ctor, klass>>
    /\ UNCHANGED <<execVars, classVars, tableVars, superVars, objVars, callVars,
                   applyVars, textVars, lateVars>>

\* The queue is empty: the list is stored and the aliases are made.
LinkCopy ==
    /\ ifc.phase = "loop"
    /\ ifc.loop.queue = <<>>
    /\ ifc' = [ifc EXCEPT !.phase = "linked",
                          !.written = ifc.loop.interfaces,
                          !.vt = link_copy(ifc.descs, ifc.vt, ifc.loop.interfaces, 1)]
    /\ UNCHANGED <<lastCall, ctor, klass>>
    /\ UNCHANGED <<execVars, classVars, tableVars, superVars, objVars, callVars,
                   applyVars, textVars, lateVars>>

IfaceNext == LinkStart \/ LinkPop \/ LinkCopy

(***************************************************************************)
(*                         ClassObject::from_class                         *)
(***************************************************************************)

\* The classes built with from_class, in this order, after the early class
\* Object.
ClassNames == <<"A", "B", "C">>

\* What a class descriptor says: its own instance allocator if it declares
\* one, and whether it is final or an interface.
Allocators == {"date_allocator", "proxy_allocator"}
Descriptors ==
    [instance_allocator : Allocators \cup {None}, kind : {"plain", "final", "interface"}]

\* Object is dynamic: its instances take dynamic properties.
ObjectInstance == [classless |-> FALSE, sealed |-> FALSE, traits |-> {}]

ClassValue(name) == <<"ClassObject", name>>
ConstructorName == [public |-> TRUE, local |-> "constructor"]

\* scriptobject_allocator, with ScriptObjectData::new: the new object's
\* prototype link is the prototype of the class it is an instance of.
scriptobject_allocator(classes, class) ==
    [data |-> custom_new(ObjectInstance), proto |-> classes[class].prototype]

\* A plausible slip: the superclass's declared allocator taken in place of
\* the one recorded on the superclass's class object.
instance_allocator_declared(classes, class, base) ==
    IF class.instance_allocator /= None THEN class.instance_allocator
    ELSE IF base /= None
            /\ classes[base].class.instance_allocator /= None
        THEN classes[base].class.instance_allocator
    ELSE "scriptobject_allocator"

\* The allocator from_class_partial records; ClassObject::instance_allocator
\* of the superclass is always Some.
instance_allocator(classes, class, base) ==
    IF class.instance_allocator /= None THEN class.instance_allocator
    ELSE IF base /= None THEN classes[base].instance_allocator
    ELSE "scriptobject_allocator"

\* The ClassObjectData of from_class_partial: a final class or an interface is not extended.
class_object_data(classes, class, base) ==
    IF base /= None /\ classes[base].class.kind = "final"
        THEN [res |-> "Err", err |-> "base class is final", cls |-> None]
    ELSE IF base /= None /\ classes[base].class.kind = "interface"
        THEN [res |-> "Err", err |-> "base class is an interface", cls |-> None]
    ELSE [res |-> "Ok", err |-> None,
          cls |-> [class |-> class, superclass_object |-> base,
                   instance_allocator |-> instance_allocator(classes, class, base),
                   prototype |-> None]]

\* allocate_prototype: a new Object, linked to the superclass's prototype
\* when there is a superclass.
allocate_prototype(classes, base) ==
    IF base /= None
    THEN [scriptobject_allocator(classes, "Object")
             EXCEPT !.proto = classes[base].prototype]
    ELSE scriptobject_allocator(classes, "Object")

\* A plausible slip: the constructor property left enumerable.
link_prototype_enumerable(name, class_proto) ==
    LET set == set_property_local(class_proto.data, ConstructorName, ClassValue(name)) IN
    [res |-> set.res, proto |-> [class_proto EXCEPT !.data = set.data]]

\* link_prototype: the constructor property set and taken off the enumerants.
link_prototype(name, class_proto) ==
    LET set == set_property_local(class_proto.data, ConstructorName, ClassValue(name)) IN
    IF set.res /= "Ok" THEN [res |-> set.res, proto |-> class_proto]
    ELSE [res |-> "Ok",
          proto |-> [class_proto EXCEPT
                        !.data = set_local_property_is_enumerable(set.data, "constructor", FALSE)]]

\* The early class Object and its prototype, which has no prototype link.
ObjectClass ==
    [class |-> [instance_allocator |-> None, kind |-> "plain"], superclass_object |-> None,
     instance_allocator |-> "scriptobject_allocator", prototype |-> "Object"]
ObjectPrototype ==
    link_prototype("Object", [data |-> custom_new(ObjectInstance), proto |-> None]).proto

NoFromClass == [name |-> None, res |-> None, err |-> None, sup |-> None]
NoKlass == [on |-> FALSE, classes |-> <<>>, prototypes |-> <<>>, last |-> NoFromClass]

\* from_class(class, base): the class object made, its prototype
\* allocated and linked; an error of a later phase leaves no class object.
BuildClass ==
    /\ klass.on
    /\ \E i \in 1..Len(ClassNames), class \in Descriptors,
          base \in DOMAIN klass.classes \cup {None},
          fault \in {"none", "into_finished_class"} :
         LET name == ClassNames[i]
             partial == class_object_data(klass.classes, class, base)
             linked == link_prototype(name, allocate_prototype(klass.classes, base))
         IN
         /\ name \notin DOMAIN klass.classes
         /\ \A j \in 1..(i - 1) : ClassNames[j] \in DOMAIN klass.classes
         /\ IF partial.res /= "Ok"
                THEN klass' = [klass EXCEPT !.last = [name |-> name, res |-> "Err",
                                                      err |-> partial.err,
                                                      sup |-> base]]
            ELSE IF linked.res /= "Ok" \/ fault /= "none"
                THEN klass' = [klass EXCEPT !.last = [name |-> name, res |-> "Err",
                                                      err |-> fault,
                                                      sup |-> base]]
            ELSE klass' =
                    [on |-> TRUE,
                     classes |-> Put(klass.classes, name, [partial.cls EXCEPT !.prototype = name]),
                     prototypes |-> Put(klass.prototypes, name, linked.proto),
                     last |-> [name |-> name, res |-> "Ok", err |-> None,
                               sup |-> base]]
    /\ UNCHANGED <<lastCall, ctor, ifc>>
    /\ UNCHANGED <<execVars, classVars, tableVars, superVars, objVars, callVars,
                   applyVars, textVars, lateVars>>

BuildClassNext == BuildClass

(***************************************************************************)
(*                     Qualified names as text (QName)                     *)
(***************************************************************************)

MaxLen == 7         \* characters of a fully qualified name

\* Strings are sequences of characters; a letter, the colon and the dot are
\* the characters that matter to parsing.
Chars == {"a", ":", "."}
Strings(n) == UNION {[1..k -> Chars] : k \in 0..n}
ColonColon == <<":", ":">>
Dot == <<".">>

\* Where pat occurs in s.
Matches(s, pat) ==
    {i \in 1..(Len(s) - Len(pat) + 1) : SubSeq(s, i, i + Len(pat) - 1) = pat}

NoParts == [some |-> FALSE, before |-> <<>>, after |-> <<>>]

\* rsplit_once: the text before and after the last occurrence of pat.
rsplit_once(s, pat) ==
    IF Matches(s, pat) = {} THEN NoParts
    ELSE LET i == CHOOSE m \in Matches(s, pat) : \A k \in Matches(s, pat) : k <= m IN
         [some |-> TRUE, before |-> SubSeq(s, 1, i - 1),
          after |-> SubSeq(s, i + Len(pat), Len(s))]

\* split_once: the text before and after the first occurrence of pat.
split_once(s, pat) ==
    IF Matches(s, pat) = {} THEN NoParts
    ELSE LET i == CHOOSE m \in Matches(s, pat) : \A k \in Matches(s, pat) : m <= k IN
         [some |-> TRUE, before |-> SubSeq(s, 1, i - 1),
          after |-> SubSeq(s, i + Len(pat), Len(s))]

\* Namespaces: the public namespace of the runtime, and Namespace::package.
public_namespace == [kind |-> "public", uri |-> <<>>]
package(package_name) == [kind |-> "package", uri |-> package_name]
as_uri(ns) == ns.uri
Namespaces(n) == {public_namespace} \cup {package(u) : u \in Strings(n)}

\* A plausible slip: split where rsplit is meant.
from_qualified_name_split_first(name) ==
    LET parts == IF split_once(name, ColonColon).some THEN split_once(name, ColonColon)
                 ELSE split_once(name, Dot)
    IN
    IF parts.some THEN [ns |-> package(parts.before), name |-> parts.after]
    ELSE [ns |-> public_namespace, name |-> name]

\* QName::from_qualified_name.
from_qualified_name(name) ==
    LET parts == IF rsplit_once(name, ColonColon).some THEN rsplit_once(name, ColonColon)
                 ELSE rsplit_once(name, Dot)
    IN
    IF parts.some THEN [ns |-> package(parts.before), name |-> parts.after]
    ELSE [ns |-> public_namespace, name |-> name]

\* A plausible slip: the dot of the error messages used here as well.
to_qualified_name_dotted(q) ==
    IF as_uri(q.ns) = <<>> THEN q.name ELSE as_uri(q.ns) \o Dot \o q.name

\* QName::to_qualified_name, by to_qualified_name_no_mc.
to_qualified_name(q) ==
    IF as_uri(q.ns) = <<>> THEN q.name ELSE as_uri(q.ns) \o ColonColon \o q.name

\* QName::to_qualified_name_err_message.
to_qualified_name_err_message(q) ==
    (IF as_uri(q.ns) /= <<>> THEN as_uri(q.ns) \o Dot ELSE <<>>) \o q.name

NoQName == [ns |-> public_namespace, name |-> <<>>]
NoQn ==
    [op |-> "none", done |-> FALSE, text |-> <<>>, q |-> NoQName, err_text |-> <<>>,
     parsed |-> NoQName]

\* from_qualified_name is applied to a text.
ParseName ==
    /\ qn.op = "parse"
    /\ ~qn.done
    /\ qn' = [qn EXCEPT !.done = TRUE, !.q = from_qualified_name(qn.text)]
    /\ UNCHANGED shown
    /\ UNCHANGED <<execVars, classVars, tableVars, superVars, objVars, callVars,
                   applyVars, linkVars, lateVars>>

\* A name is rendered in both styles, and the first rendering parsed back.
RenderName ==
    /\ qn.op = "render"
    /\ ~qn.done
    /\ qn' = [qn EXCEPT !.done = TRUE,
                        !.text = to_qualified_name(qn.q),
                        !.err_text = to_qualified_name_err_message(qn.q),
                        !.parsed = from_qualified_name(to_qualified_name(qn.q))]
    /\ UNCHANGED shown
    /\ UNCHANGED <<execVars, classVars, tableVars, superVars, objVars, callVars,
                   applyVars, linkVars, lateVars>>

QNameNext == ParseName \/ RenderName

(***************************************************************************)
(*                     Stack traces (CallStack::display)                   *)
(***************************************************************************)

MaxFrames == 3      \* frames on the call stack that is displayed

\* Text is the sequence of the pieces pushed to the output buffer; the buffer
\* of one display is gone when the stack changes.

\* The methods on the stack: a native method, and bytecode methods by what
\* they are to the class they are bound to (its class initializer, its
\* instance initializer, one of its instance or class traits, none of them).
TraceMethods ==
    {[native |-> TRUE, name |-> "m1", role |-> "none", kind |-> "Method", is_function |-> FALSE],
     [native |-> FALSE, name |-> "", role |-> "class_init", kind |-> "Method", is_function |-> FALSE],
     [native |-> FALSE, name |-> "", role |-> "instance_init", kind |-> "Method", is_function |-> FALSE],
     [native |-> FALSE, name |-> "", role |-> "instance_trait", kind |-> "Getter", is_function |-> FALSE],
     [native |-> FALSE, name |-> "", role |-> "class_trait", kind |-> "Setter", is_function |-> FALSE],
     [native |-> FALSE, name |-> "m2", role |-> "none", kind |-> "Method", is_function |-> TRUE],
     [native |-> FALSE, name |-> "", role |-> "none", kind |-> "Method", is_function |-> TRUE]}

\* A method bound to no class is none of the parts of a class.
TraceExecs ==
    {e \in [method : TraceMethods, bound_superclass : BoundSuperclasses] :
        e.bound_superclass = None => e.method.role = "none"}

\* Scripts: of no translation unit, of a unit without name, of the unit unit1.
Scripts ==
    {[translation_unit |-> FALSE, name |-> None], [translation_unit |-> TRUE, name |-> None],
     [translation_unit |-> TRUE, name |-> "unit1"]}

KindPrefix(kind) ==
    IF kind = "Setter" THEN <<"set ">> ELSE IF kind = "Getter" THEN <<"get ">> ELSE <<>>

\* display_function for a bytecode method bound to a class.
display_bound_bytecode(method) ==
    IF method.role = "class_init" THEN <<"$cinit">>
    ELSE IF method.role = "instance_init" THEN <<>>
    ELSE IF method.role = "instance_trait"
        THEN <<"/">> \o KindPrefix(method.kind) \o <<"trait">>
    ELSE IF method.role = "class_trait"
        THEN <<"$", "/">> \o KindPrefix(method.kind) \o <<"trait">>
    ELSE IF method.name /= "" THEN <<"/", method.name>>
    ELSE <<>>

\* display_function: the class name if bound to a class, the method, "()".
display_function(method, superclass) ==
    (IF superclass /= None THEN <<superclass>> ELSE <<>>)
    \o (IF method.native THEN <<"/", method.name>>
        ELSE IF superclass /= None THEN display_bound_bytecode(method)
        ELSE IF method.is_function /\ method.name /= "" THEN <<"Function/", method.name>>
        ELSE <<"MethodInfo-", "0">>)
    \o <<"()">>

\* The name shown for the script of a global initializer.
unit_name(script) ==
    IF script.translation_unit
    THEN IF script.name /= None THEN script.name ELSE "<No name>"
    ELSE "<No translation unit>"

\* The body of the loop of display for one frame.
display_call(node) ==
    <<"\n\tat ">>
    \o (IF node.node = "GlobalInit"
        THEN <<"global$init() [TU=", unit_name(node.method), "]">>
        ELSE display_function(node.method, node.superclass))

\* A plausible slip: the frames shown oldest first.
RECURSIVE display_oldest_first(_, _)
display_oldest_first(output, st) ==
    IF st = <<>> THEN output
    ELSE display_oldest_first(output \o display_call(Head(st)), Tail(st))

\* CallStack::display: `for call in self.stack.iter().rev()`.
RECURSIVE display(_, _)
display(output, st) ==
    IF st = <<>> THEN output
    ELSE display(output \o display_call(st[Len(st)]), SubSeq(st, 1, Len(st) - 1))

NoShown == [op |-> "none", stack |-> CallStackNew, out |-> <<>>]

TracePush ==
    /\ shown.op /= "none"
    /\ Len(shown.stack) < MaxFrames
    /\ \E exec \in TraceExecs :
         shown' = [shown EXCEPT !.op = "push", !.stack = push(@, exec), !.out = <<>>]
    /\ UNCHANGED qn
    /\ UNCHANGED <<execVars, classVars, tableVars, superVars, objVars, callVars,
                   applyVars, linkVars, lateVars>>

TracePushGlobalInit ==
    /\ shown.op /= "none"
    /\ Len(shown.stack) < MaxFrames
    /\ \E script \in Scripts :
         shown' = [shown EXCEPT !.op = "push_global_init",
                                !.stack = push_global_init(@, script),
                                !.out = <<>>]
    /\ UNCHANGED qn
    /\ UNCHANGED <<execVars, classVars, tableVars, superVars, objVars, callVars,
                   applyVars, linkVars, lateVars>>

TracePop ==
    /\ shown.op /= "none"
    /\ shown' = [shown EXCEPT !.op = "pop", !.stack = pop(@), !.out = <<>>]
    /\ UNCHANGED qn
    /\ UNCHANGED <<execVars, classVars, tableVars, superVars, objVars, callVars,
                   applyVars, linkVars, lateVars>>

\* Display for CallStack: display into a new buffer.
TraceDisplay ==
    /\ shown.op /= "none"
    /\ shown' = [shown EXCEPT !.op = "display", !.out = display(<<>>, shown.stack)]
    /\ UNCHANGED qn
    /\ UNCHANGED <<execVars, classVars, tableVars, superVars, objVars, callVars,
                   applyVars, linkVars, lateVars>>

TraceNext == TracePush \/ TracePushGlobalInit \/ TracePop \/ TraceDisplay


(***************************************************************************)
(*       init_instance_vtable and into_finished_class on one class         *)
(***************************************************************************)

\* The class object of a descriptor as from_class_partial leaves it: linked
\* to no type, without prototype, its tables empty.
Partial(class) == from_class_partial(class, 0, <<>>).obj

\* A plausible slip: the check of the type link forgotten.
init_instance_vtable_unchecked(o, fault) ==
    IF fault /= "none" THEN [res |-> "Err", obj |-> o]
    ELSE [res |-> "Ok", obj |-> [o EXCEPT !.ivt = TRUE]]

\* init_instance_vtable: refuses a class object linked to no type, validates
\* the class, then builds the instance table.
init_instance_vtable(o, fault) ==
    IF o.instance_of = None THEN [res |-> "Err", obj |-> o]
    ELSE IF fault /= "none" THEN [res |-> "Err", obj |-> o]
    ELSE [res |-> "Ok", obj |-> [o EXCEPT !.ivt = TRUE]]

\* The outcome of into_finished_class: its result, the steps entered, the
\* descriptor's flag afterwards, whether the class initializer was invoked.
Finish(res, log, flags, ran) == [res |-> res, log |-> log, flags |-> flags, ran |-> ran]

\* A plausible slip: the class initializer run before the tables are built
\* and the interfaces linked.
into_finished_class_initializer_first(o, flags, fault, ret) ==
    LET i == run_class_initializer(flags, o.class)
        r == RunSteps(o, into_finished_steps, fault, <<"run_class_initializer">>)
    IN
    IF o.instance_of = None THEN Finish("panic", <<>>, flags, FALSE)
    ELSE IF i.invoke /\ ret = "err"
        THEN Finish("Err", <<"run_class_initializer">>, i.flags, TRUE)
    ELSE Finish(IF r.ok THEN "Ok" ELSE "Err", r.log, i.flags, i.invoke)

\* into_finished_class: unwraps the type link, then the class-side table,
\* the interfaces, the class-side slots, and the class initializer, whose
\* result `ret` is handed on.
into_finished_class(o, flags, fault, ret) ==
    LET r == RunSteps(o, into_finished_steps, fault, <<>>)
        i == run_class_initializer(flags, o.class)
    IN
    IF o.instance_of = None THEN Finish("panic", <<>>, flags, FALSE)
    ELSE IF ~r.ok THEN Finish("Err", r.log, flags, FALSE)
    ELSE Finish(IF i.invoke /\ ret = "err" THEN "Err" ELSE "Ok",
                Append(r.log, "run_class_initializer"), i.flags, i.invoke)

NoFin ==
    [phase |-> "none", obj |-> Partial("P"), flags |-> {}, op |-> None, res |-> None,
     log |-> <<>>, ran |-> FALSE, runs |-> 0, early |-> FALSE]

\* link_type makes the class object an instance of Class.
FinLinkType ==
    /\ fin.phase = "live"
    /\ fin' = [fin EXCEPT !.obj = StepEffect(@, "link_type", FALSE),
                          !.op = "link_type", !.res = "Ok", !.log = <<>>, !.ran = FALSE]
    /\ UNCHANGED <<bor, heap, inst>>
    /\ UNCHANGED <<execVars, classVars, tableVars, superVars, objVars, callVars,
                   applyVars, linkVars, textVars>>

\* link_prototype stores the prototype of the class.
FinLinkPrototype ==
    /\ fin.phase = "live"
    /\ \E fault \in {"none", "link_prototype"} :
         fin' = [fin EXCEPT !.obj = StepEffect(@, "link_prototype", fault /= "none"),
                            !.op = "link_prototype",
                            !.res = IF fault = "none" THEN "Ok" ELSE "Err",
                            !.log = <<>>, !.ran = FALSE]
    /\ UNCHANGED <<bor, heap, inst>>
    /\ UNCHANGED <<execVars, classVars, tableVars, superVars, objVars, callVars,
                   applyVars, linkVars, textVars>>

FinInitInstanceVtable ==
    /\ fin.phase = "live"
    /\ \E fault \in {"none", "validate_class", "init_vtable"} :
         LET r == init_instance_vtable(fin.obj, fault) IN
         fin' = [fin EXCEPT !.obj = r.obj, !.op = "init_instance_vtable", !.res = r.res,
                            !.log = <<>>, !.ran = FALSE]
    /\ UNCHANGED <<bor, heap, inst>>
    /\ UNCHANGED <<execVars, classVars, tableVars, superVars, objVars, callVars,
                   applyVars, linkVars, textVars>>

\* into_finished_class; a panic ends the program.
FinIntoFinishedClass ==
    /\ fin.phase = "live"
    /\ \E fault \in {"none", "init_class_vtable", "link_interfaces"}, ret \in {"ok", "err"} :
         LET r == into_finished_class(fin.obj, fin.flags, fault, ret) IN
         fin' = [fin EXCEPT !.phase = IF r.res = "panic" THEN "panicked" ELSE "live",
                            !.flags = r.flags,
                            !.op = "into_finished_class", !.res = r.res, !.log = r.log,
                            !.ran = r.ran,
                            !.runs = IF r.ran THEN @ + 1 ELSE @,
                            !.early = @ \/ (r.res = "Err" /\ ~r.ran)]
    /\ UNCHANGED <<bor, heap, inst>>
    /\ UNCHANGED <<execVars, classVars, tableVars, superVars, objVars, callVars,
                   applyVars, linkVars, textVars>>

FinishNext ==
    FinLinkType \/ FinLinkPrototype \/ FinInitInstanceVtable \/ FinIntoFinishedClass

(***************************************************************************)
(*          Borrows of the class object and of its descriptor              *)
(***************************************************************************)

MaxLoop == 2        \* classes taken from the queue, interfaces copied from

\* The cells: the class object (self.0), its class descriptor, the
\* descriptors of the other classes met while linking, the instance table.
Cells == {"object", "descriptor", "other", "vtable"}

\* The statements that matter to the borrows: a borrow taken, a borrow
\* given back, the test of the initialized flag, an early return, a call.
Acquire(kind, cell) == [do |-> "acquire", kind |-> kind, cell |-> cell]
Release(kind, cell) == [do |-> "release", kind |-> kind, cell |-> cell]
ScopeEnd(kind, cell) == [do |-> "scope_end", kind |-> kind, cell |-> cell]
Plain(what) == [do |-> what, kind |-> None, cell |-> None]
Temporary(kind, cell) == <<Acquire(kind, cell), Release(kind, cell)>>

RECURSIVE Repeat(_, _)
Repeat(block, n) == IF n = 0 THEN <<>> ELSE block \o Repeat(block, n - 1)

\* A plausible slip: the write borrow that marks the class initialized bound
\* to a variable that lives until the function returns.
run_class_initializer_code_write_kept ==
    Temporary("read", "object") \o Temporary("read", "object")
    \o <<Acquire("read", "descriptor"), Plain("test"), Plain("from_method"),
         Release("read", "descriptor"),
         Acquire("write", "descriptor"), Plain("mark_class_initialized"),
         Plain("call"),
         ScopeEnd("write", "descriptor"), ScopeEnd("read", "descriptor"), Plain("return")>>

\* run_class_initializer: scope and class read through temporaries, the
\* descriptor read through class_read, dropped before the flag is marked
\* through a temporary write, then the call.
run_class_initializer_code ==
    Temporary("read", "object") \o Temporary("read", "object")
    \o <<Acquire("read", "descriptor"), Plain("test"), Plain("from_method"),
         Release("read", "descriptor"),
         Acquire("write", "descriptor"), Plain("mark_class_initialized"),
         Release("write", "descriptor"),
         Plain("call"),
         ScopeEnd("read", "descriptor"), Plain("return")>>

\* One turn of the queue loop: the class read for the length of the `for`,
\* a class resolved (an early return if it fails), the resolved class read.
LoopTurn(fails) ==
    <<Acquire("read", "other"), Plain(IF fails THEN "fail" ELSE "early_resolve_class")>>
    \o Temporary("read", "other") \o <<Release("read", "other")>>

\* One interface of the alias loop: the interface read, the instance table
\* fetched from the class object, the alias written into the table.
CopyTurn ==
    <<Acquire("read", "other")>> \o Temporary("read", "object")
    \o <<Plain("copy")>> \o Temporary("write", "vtable") \o <<Release("read", "other")>>

\* A plausible slip: drop(write) forgotten.
link_interfaces_code_write_kept(turns, fails, copies) ==
    <<Acquire("write", "object")>> \o Temporary("read", "descriptor")
    \o Repeat(LoopTurn(FALSE), turns) \o (IF fails THEN LoopTurn(TRUE) ELSE <<>>)
    \o <<Plain("store"), Acquire("read", "object")>>
    \o Repeat(CopyTurn, copies)
    \o <<ScopeEnd("read", "object"), ScopeEnd("write", "object"), Plain("return")>>

\* link_interfaces: the class object write-borrowed over the queue loop,
\* drop(write), then read-borrowed over the alias loop.
link_interfaces_code(turns, fails, copies) ==
    <<Acquire("write", "object")>> \o Temporary("read", "descriptor")
    \o Repeat(LoopTurn(FALSE), turns) \o (IF fails THEN LoopTurn(TRUE) ELSE <<>>)
    \o <<Plain("store"), Release("write", "object"), Acquire("read", "object")>>
    \o Repeat(CopyTurn, copies)
    \o <<ScopeEnd("read", "object"), Plain("return")>>

\* GcCell: a write borrow excludes every other borrow of the cell.
Conflicts(held, kind, cell) ==
    \E i \in 1..Len(held) : held[i][2] = cell /\ (kind = "write" \/ held[i][1] = "write")

\* The borrows held, with one borrow <<kind, cell>> given back if it is held.
Dropped(held, kind, cell) ==
    IF \E i \in 1..Len(held) : held[i] = <<kind, cell>>
    THEN RemoveAt(held, CHOOSE i \in 1..Len(held) : held[i] = <<kind, cell>>)
    ELSE held

NoBor ==
    [pc |-> 0, code |-> <<>>, held |-> <<>>, flag |-> FALSE, events |-> {},
     res |-> None, touched |-> <<>>]

\* The next statement runs.  A borrow that conflicts panics; the test of the
\* flag skips to the end when the class is initialized; an early return and
\* the end of the function drop the borrows still bound; the called code
\* borrows a cell of its choice.
BorrowStep ==
    /\ bor.pc >= 1 /\ bor.pc <= Len(bor.code)
    /\ bor.res = None
    /\ LET ins == bor.code[bor.pc] IN
       CASE ins.do = "acquire" ->
              IF Conflicts(bor.held, ins.kind, ins.cell)
              THEN bor' = [bor EXCEPT !.res = "panic"]
              ELSE bor' = [bor EXCEPT !.pc = @ + 1,
                                      !.held = Append(@, <<ins.kind, ins.cell>>)]
         [] ins.do \in {"release", "scope_end"} ->
              bor' = [bor EXCEPT !.pc = @ + 1, !.held = Dropped(@, ins.kind, ins.cell)]
         [] ins.do = "test" ->
              bor' = [bor EXCEPT !.pc = IF bor.flag
                                        THEN CHOOSE i \in 1..Len(bor.code) :
                                                /\ bor.code[i].do = "scope_end"
                                                /\ \A j \in 1..(i - 1) :
                                                      bor.code[j].do /= "scope_end"
                                        ELSE @ + 1]
         [] ins.do = "mark_class_initialized" ->
              bor' = [bor EXCEPT !.pc = @ + 1, !.flag = TRUE]
         [] ins.do = "fail" ->
              bor' = [bor EXCEPT !.held = <<>>, !.res = "Err"]
         [] ins.do = "return" ->
              bor' = [bor EXCEPT !.res = "Ok"]
         [] ins.do = "call" ->
              \E kind \in {"read", "write"}, cell \in {"object", "descriptor"} :
                 bor' = [bor EXCEPT !.pc = @ + 1,
                                    !.events = @ \cup {[at |-> "call", held |-> bor.held]},
                                    !.touched = <<kind, cell>>,
                                    !.res = IF Conflicts(bor.held, kind, cell)
                                            THEN "panic" ELSE @]
         [] OTHER ->
              bor' = [bor EXCEPT !.pc = @ + 1,
                                 !.events = @ \cup {[at |-> ins.do, held |-> bor.held]}]
    /\ UNCHANGED <<fin, heap, inst>>
    /\ UNCHANGED <<execVars, classVars, tableVars, superVars, objVars, callVars,
                   applyVars, linkVars, textVars>>

BorrowNext == BorrowStep

(***************************************************************************)
(*            The slot vector of one object over its installations         *)
(***************************************************************************)

\* Bound of the installation model.
MaxInstalls == 2    \* runs of install_instance_slots on one object

\* The default slots of the table the object is given: the instance table of
\* its class for an instance, the class-side table for a class object.
DefaultLists == UNION {[1..n -> {NoDefault} \cup PropValues] : n \in 0..MaxSlots}

\* The table with these default slots.
TableOf(defaults) == [VTableEmpty EXCEPT !.default_slots = defaults, !.inited = TRUE]

\* No object yet: an instance not allocated, or a class object as
\* from_class_partial leaves it, without table and without slots.
NoInst ==
    [kind |-> "none", defaults |-> <<>>, vtable |-> FALSE, slots |-> <<>>,
     installs |-> 0, op |-> "none", res |-> "none"]

\* ClassObject::construct on the class of the instance: the allocator makes
\* the object with its table and no slots, install_instance_slots fills the
\* slots, call_init runs the initializer; an error returns no object.
InstConstruct ==
    /\ inst.kind = "instance"
    /\ inst.op = "none"
    /\ \E fault \in {"none", "instance_allocator", "call_init"} :
         inst' = IF fault = "instance_allocator"
                 THEN [inst EXCEPT !.op = "construct", !.res = "Err"]
                 ELSE [inst EXCEPT
                          !.vtable = TRUE,
                          !.slots = install_instance_slots(<<>>, TableOf(inst.defaults)),
                          !.installs = 1,
                          !.op = "construct",
                          !.res = IF fault = "call_init" THEN "Err" ELSE "Ok"]
    /\ UNCHANGED <<fin, bor, heap>>
    /\ UNCHANGED <<execVars, classVars, tableVars, superVars, objVars, callVars,
                   applyVars, linkVars, textVars>>

\* ClassObject::into_finished_class on the class object: the class-side
\* table and the interfaces first, then install_class_vtable_and_slots, then
\* the class initializer.
InstIntoFinishedClass ==
    /\ inst.kind = "class"
    /\ inst.installs < MaxInstalls
    /\ \E fault \in {"none", "init_class_vtable", "link_interfaces", "run_class_initializer"} :
         inst' = IF fault \in {"init_class_vtable", "link_interfaces"}
                 THEN [inst EXCEPT !.op = "into_finished_class", !.res = "Err"]
                 ELSE [inst EXCEPT
                          !.vtable = TRUE,
                          !.slots = install_instance_slots(@, TableOf(inst.defaults)),
                          !.installs = @ + 1,
                          !.op = "into_finished_class",
                          !.res = IF fault = "none" THEN "Ok" ELSE "Err"]
    /\ UNCHANGED <<fin, bor, heap>>
    /\ UNCHANGED <<execVars, classVars, tableVars, superVars, objVars, callVars,
                   applyVars, linkVars, textVars>>

\* ScriptObjectData::install_instance_slots on an object that has its table.
InstInstallInstanceSlots ==
    /\ inst.vtable
    /\ inst.installs < MaxInstalls
    /\ inst' = [inst EXCEPT
                   !.slots = install_instance_slots(@, TableOf(inst.defaults)),
                   !.installs = @ + 1,
                   !.op = "install_instance_slots",
                   !.res = "Ok"]
    /\ UNCHANGED <<fin, bor, heap>>
    /\ UNCHANGED <<execVars, classVars, tableVars, superVars, objVars, callVars,
                   applyVars, linkVars, textVars>>

InstallNext ==
    \/ InstConstruct
    \/ InstIntoFinishedClass
    \/ InstInstallInstanceSlots

(***************************************************************************)
(*                  Prototype links and the lookup along them              *)
(***************************************************************************)

\* Bound of the heap model.
MaxObjects == 3     \* objects on the heap

\* The heap: object i has the prototype link proto[i], 0 for no link.  A
\* get_property_local of a name no map holds, called on the object `on`, is
\* idle, walking with its variable `proto` at some object or at the end of
\* the chain, or returned; `turns` counts the turns of its loop modulo 2.
NoHeap ==
    [proto |-> <<>>, lookup |-> "idle", on |-> 0, at |-> 0, turns |-> 0, op |-> "none"]

\* ScriptObjectData::proto.
proto(h, o) == h.proto[o]

\* ScriptObjectData::set_proto.
set_proto(h, o, p) == [h EXCEPT !.proto[o] = p]

\* ClassObject::allocate_prototype: a new object, linked to the prototype of
\* the superclass if there is a superclass (base 0: none).
HeapAllocatePrototype ==
    /\ heap.lookup /= "walking"
    /\ Len(heap.proto) < MaxObjects
    /\ \E base \in 0..Len(heap.proto) :
         LET new == Len(heap.proto) + 1
             made == [heap EXCEPT !.proto = Append(@, 0)]
         IN heap' = [(IF base /= 0 THEN set_proto(made, new, base) ELSE made)
                        EXCEPT !.lookup = "idle", !.on = 0, !.at = 0, !.turns = 0, !.op = "allocate_prototype"]
    /\ UNCHANGED <<fin, bor, inst>>
    /\ UNCHANGED <<execVars, classVars, tableVars, superVars, objVars, callVars,
                   applyVars, linkVars, textVars>>

\* ClassObject::link_type: the class object takes the given object as its
\* prototype link.
HeapLinkType ==
    /\ heap.lookup /= "walking"
    /\ \E c \in 1..Len(heap.proto), p \in 1..Len(heap.proto) :
         heap' = [set_proto(heap, c, p)
                     EXCEPT !.lookup = "idle", !.on = 0, !.at = 0, !.turns = 0, !.op = "link_type"]
    /\ UNCHANGED <<fin, bor, inst>>
    /\ UNCHANGED <<execVars, classVars, tableVars, superVars, objVars, callVars,
                   applyVars, linkVars, textVars>>

\* ScriptObjectData::set_proto on any object with any object.
HeapSetProto ==
    /\ heap.lookup /= "walking"
    /\ \E o \in 1..Len(heap.proto), p \in 1..Len(heap.proto) :
         heap' = [set_proto(heap, o, p)
                     EXCEPT !.lookup = "idle", !.on = 0, !.at = 0, !.turns = 0, !.op = "set_proto"]
    /\ UNCHANGED <<fin, bor, inst>>
    /\ UNCHANGED <<execVars, classVars, tableVars, superVars, objVars, callVars,
                   applyVars, linkVars, textVars>>

\* get_property_local of a name that no map holds, up to the loop: the own
\* map misses, `proto` is the link of the object.
HeapLookup ==
    /\ heap.lookup /= "walking"
    /\ \E o \in 1..Len(heap.proto) :
         heap' = [heap EXCEPT !.lookup = "walking", !.on = o, !.at = proto(heap, o),
                              !.turns = 0,
                              !.op = "get_property_local"]
    /\ UNCHANGED <<fin, bor, inst>>
    /\ UNCHANGED <<execVars, classVars, tableVars, superVars, objVars, callVars,
                   applyVars, linkVars, textVars>>

\* One turn of `while let Some(obj) = proto`: the map of obj misses, and
\* `proto` moves on to the link of obj.
HeapLookupTurn ==
    /\ heap.lookup = "walking"
    /\ heap.at /= 0
    /\ heap' = [heap EXCEPT !.at = proto(heap, heap.at), !.turns = (@ + 1) % 2]
    /\ UNCHANGED <<fin, bor, inst>>
    /\ UNCHANGED <<execVars, classVars, tableVars, superVars, objVars, callVars,
                   applyVars, linkVars, textVars>>

\* The loop ends at an object without link, and the lookup returns.
HeapLookupReturn ==
    /\ heap.lookup = "walking"
    /\ heap.at = 0
    /\ heap' = [heap EXCEPT !.lookup = "returned"]
    /\ UNCHANGED <<fin, bor, inst>>
    /\ UNCHANGED <<execVars, classVars, tableVars, superVars, objVars, callVars,
                   applyVars, linkVars, textVars>>

HeapNext ==
    \/ HeapAllocatePrototype
    \/ HeapLinkType
    \/ HeapSetProto
    \/ HeapLookup
    \/ HeapLookupTurn
    \/ HeapLookupReturn


(***************************************************************************)
(*                            Specifications                               *)
(***************************************************************************)

\* The state after construction: an empty call stack, no class objects, no
\* descriptor initialized, no table built and no method running.
Init ==
    /\ stack = CallStackNew
    /\ frames = <<>>
    /\ lastExit = NoExit
    /\ classObjs = <<>>
    /\ class_initialized = {}
    /\ calls = <<>>
    /\ initRuns = <<>>
    /\ failedInit = {}
    /\ instances = {}
    /\ lastResult = NoResult
    /\ traits = [c \in Classes |-> <<>>]
    /\ ivtable = [c \in Classes |-> VTableEmpty]
    /\ objects = [c \in Classes |-> NoObject]
    /\ cur = Idle
    /\ lastSuper = NoSuper
    /\ obj = NoData
    /\ protos = <<>>
    /\ lastOp = NoOp
    /\ call = NoCall
    /\ generic = NoGeneric
    /\ arena = <<>>
    /\ lastApply = NoApply
    /\ lastCall = NoClassCall
    /\ ctor = NoCtor
    /\ klass = NoKlass
    /\ ifc = NoIfc
    /\ qn = NoQn
    /\ shown = NoShown
    /\ fin = NoFin
    /\ bor = NoBor
    /\ heap = NoHeap
    /\ inst = NoInst

SpecExec == Init /\ [][ExecNext]_vars

SpecClass == Init /\ [][ClassNext]_vars

\* The loader has handed over the descriptors of A and B (C declares
\* nothing of its own); no table is built yet.
InitTable ==
    /\ stack = CallStackNew
    /\ frames = <<>>
    /\ lastExit = NoExit
    /\ classObjs = <<>>
    /\ class_initialized = {}
    /\ calls = <<>>
    /\ initRuns = <<>>
    /\ failedInit = {}
    /\ instances = {}
    /\ lastResult = NoResult
    /\ \E ta \in TraitLists("A", LayoutNames.A, LayoutKinds, MaxTraits),
          tb \in TraitLists("B", LayoutNames.B, LayoutKinds, MaxTraits) :
         traits = [c \in Classes |-> CASE c = "A" -> ta [] c = "B" -> tb [] OTHER -> <<>>]
    /\ ivtable = [c \in Classes |-> VTableEmpty]
    /\ objects = [c \in Classes |-> NoObject]
    /\ cur = Idle
    /\ lastSuper = NoSuper
    /\ obj = NoData
    /\ protos = <<>>
    /\ lastOp = NoOp
    /\ call = NoCall
    /\ generic = NoGeneric
    /\ arena = <<>>
    /\ lastApply = NoApply
    /\ lastCall = NoClassCall
    /\ ctor = NoCtor
    /\ klass = NoKlass
    /\ ifc = NoIfc
    /\ qn = NoQn
    /\ shown = NoShown
    /\ fin = NoFin
    /\ bor = NoBor
    /\ heap = NoHeap
    /\ inst = NoInst

SpecTable == InitTable /\ [][TableNext]_vars

\* The loader has handed over the descriptors of A, B and C: each declares
\* the method f, and p as any kind of trait or not at all.
InitSuper ==
    /\ stack = CallStackNew
    /\ frames = <<>>
    /\ lastExit = NoExit
    /\ classObjs = <<>>
    /\ class_initialized = {}
    /\ calls = <<>>
    /\ initRuns = <<>>
    /\ failedInit = {}
    /\ instances = {}
    /\ lastResult = NoResult
    /\ \E k \in [Classes -> PKinds] :
         traits = [c \in Classes |-> SuperTraits(c, k[c])]
    /\ ivtable = [c \in Classes |-> VTableEmpty]
    /\ objects = [c \in Classes |-> NoObject]
    /\ cur = Idle
    /\ lastSuper = NoSuper
    /\ obj = NoData
    /\ protos = <<>>
    /\ lastOp = NoOp
    /\ call = NoCall
    /\ generic = NoGeneric
    /\ arena = <<>>
    /\ lastApply = NoApply
    /\ lastCall = NoClassCall
    /\ ctor = NoCtor
    /\ klass = NoKlass
    /\ ifc = NoIfc
    /\ qn = NoQn
    /\ shown = NoShown
    /\ fin = NoFin
    /\ bor = NoBor
    /\ heap = NoHeap
    /\ inst = NoInst

SpecSuper == InitSuper /\ [][SuperNext]_vars

\* One object, just allocated for a class (or classless), on a prototype
\* chain of two objects that hold dynamic properties of their own.
InitObject ==
    /\ stack = CallStackNew
    /\ frames = <<>>
    /\ lastExit = NoExit
    /\ classObjs = <<>>
    /\ class_initialized = {}
    /\ calls = <<>>
    /\ initRuns = <<>>
    /\ failedInit = {}
    /\ instances = {}
    /\ lastResult = NoResult
    /\ traits = [c \in Classes |-> <<>>]
    /\ ivtable = [c \in Classes |-> VTableEmpty]
    /\ objects = [c \in Classes |-> NoObject]
    /\ cur = Idle
    /\ lastSuper = NoSuper
    /\ \E c \in ObjClasses : obj = custom_new(c)
    /\ \E q \in ProtoMaps("q"), r \in ProtoMaps("r") : protos = <<q, r>>
    /\ lastOp = NoOp
    /\ call = NoCall
    /\ generic = NoGeneric
    /\ arena = <<>>
    /\ lastApply = NoApply
    /\ lastCall = NoClassCall
    /\ ctor = NoCtor
    /\ klass = NoKlass
    /\ ifc = NoIfc
    /\ qn = NoQn
    /\ shown = NoShown
    /\ fin = NoFin
    /\ bor = NoBor
    /\ heap = NoHeap
    /\ inst = NoInst

SpecObject == InitObject /\ [][ObjectNext]_vars

\* One object as construct leaves it: the defaults of its class's table
\* installed as its slots, no bound method cached.
InitSlots ==
    /\ stack = CallStackNew
    /\ frames = <<>>
    /\ lastExit = NoExit
    /\ classObjs = <<>>
    /\ class_initialized = {}
    /\ calls = <<>>
    /\ initRuns = <<>>
    /\ failedInit = {}
    /\ instances = {}
    /\ lastResult = NoResult
    /\ traits = [c \in Classes |-> <<>>]
    /\ ivtable = [c \in Classes |-> VTableEmpty]
    /\ objects = [c \in Classes |-> NoObject]
    /\ cur = Idle
    /\ lastSuper = NoSuper
    /\ \E n \in 0..MaxSlots :
         obj = [custom_new([classless |-> FALSE, sealed |-> TRUE, traits |-> {}])
                   EXCEPT !.slots = install_instance_slots(<<>>,
                       [VTableEmpty EXCEPT !.default_slots = [i \in 1..n |-> <<"d", i>>]])]
    /\ protos = <<>>
    /\ lastOp = NoOp
    /\ call = NoCall
    /\ generic = NoGeneric
    /\ arena = <<>>
    /\ lastApply = NoApply
    /\ lastCall = NoClassCall
    /\ ctor = NoCtor
    /\ klass = NoKlass
    /\ ifc = NoIfc
    /\ qn = NoQn
    /\ shown = NoShown
    /\ fin = NoFin
    /\ bor = NoBor
    /\ heap = NoHeap
    /\ inst = NoInst

SpecSlots == InitSlots /\ [][SlotsNext]_vars

\* One invocation of exec about to be made: any executable, any caller
\* receiver and argument count, any failing collaborator.
InitCall ==
    /\ stack = CallStackNew
    /\ frames = <<>>
    /\ lastExit = NoExit
    /\ classObjs = <<>>
    /\ class_initialized = {}
    /\ calls = <<>>
    /\ initRuns = <<>>
    /\ failedInit = {}
    /\ instances = {}
    /\ lastResult = NoResult
    /\ traits = [c \in Classes |-> <<>>]
    /\ ivtable = [c \in Classes |-> VTableEmpty]
    /\ objects = [c \in Classes |-> NoObject]
    /\ cur = Idle
    /\ lastSuper = NoSuper
    /\ obj = NoData
    /\ protos = <<>>
    /\ lastOp = NoOp
    /\ \E exec \in Executables, unbound \in UnboundReceivers, nargs \in 0..MaxArgs,
          fault \in Faults :
         call = [exec |-> exec, unbound |-> unbound, nargs |-> nargs, fault |-> fault,
                 phase |-> "ready", out |-> NoOut, pushed |-> 0]
    /\ generic = NoGeneric
    /\ arena = <<>>
    /\ lastApply = NoApply
    /\ lastCall = NoClassCall
    /\ ctor = NoCtor
    /\ klass = NoKlass
    /\ ifc = NoIfc
    /\ qn = NoQn
    /\ shown = NoShown
    /\ fin = NoFin
    /\ bor = NoBor
    /\ heap = NoHeap
    /\ inst = NoInst

SpecCall == InitCall /\ [][CallNext]_vars

\* A class object (generic or not) without applications, and one class
\* object the host has built, marked with set_param or not.
InitApply ==
    /\ stack = CallStackNew
    /\ frames = <<>>
    /\ lastExit = NoExit
    /\ classObjs = <<>>
    /\ class_initialized = {}
    /\ calls = <<>>
    /\ initRuns = <<>>
    /\ failedInit = {}
    /\ instances = {}
    /\ lastResult = NoResult
    /\ traits = [c \in Classes |-> <<>>]
    /\ ivtable = [c \in Classes |-> VTableEmpty]
    /\ objects = [c \in Classes |-> NoObject]
    /\ cur = Idle
    /\ lastSuper = NoSuper
    /\ obj = NoData
    /\ protos = <<>>
    /\ lastOp = NoOp
    /\ call = NoCall
    /\ \E g \in BOOLEAN : generic = [NoGeneric EXCEPT !.is_generic = g]
    /\ \E p \in {Unapplied} \cup ParamKeys : arena = <<[params |-> Unapplied], [params |-> p]>>
    /\ lastApply = NoApply
    /\ lastCall = NoClassCall
    /\ ctor = NoCtor
    /\ klass = NoKlass
    /\ ifc = NoIfc
    /\ qn = NoQn
    /\ shown = NoShown
    /\ fin = NoFin
    /\ bor = NoBor
    /\ heap = NoHeap
    /\ inst = NoInst

SpecApply == InitApply /\ [][ApplyNext]_vars

\* A class value, with a call handler or without, is about to be called with
\* any receiver and arguments.
InitClassCall ==
    /\ stack = CallStackNew
    /\ frames = <<>>
    /\ lastExit = NoExit
    /\ classObjs = <<>>
    /\ class_initialized = {}
    /\ calls = <<>>
    /\ initRuns = <<>>
    /\ failedInit = {}
    /\ instances = {}
    /\ lastResult = NoResult
    /\ traits = [c \in Classes |-> <<>>]
    /\ ivtable = [c \in Classes |-> VTableEmpty]
    /\ objects = [c \in Classes |-> NoObject]
    /\ cur = Idle
    /\ lastSuper = NoSuper
    /\ obj = NoData
    /\ protos = <<>>
    /\ lastOp = NoOp
    /\ call = NoCall
    /\ generic = NoGeneric
    /\ arena = <<>>
    /\ lastApply = NoApply
    /\ \E cls \in Classes, h \in CallHandlers, receiver \in UnboundReceivers,
          arguments \in Arguments, fault \in Faults :
         lastCall = [NoClassCall EXCEPT !.op = "ready", !.class = cls, !.handler = h,
                                        !.receiver = receiver, !.args = arguments,
                                        !.fault = fault]
    /\ ctor = NoCtor
    /\ klass = NoKlass
    /\ ifc = NoIfc
    /\ qn = NoQn
    /\ shown = NoShown
    /\ fin = NoFin
    /\ bor = NoBor
    /\ heap = NoHeap
    /\ inst = NoInst

SpecClassCall == InitClassCall /\ [][ClassCallNext]_vars

\* construct is about to be called on a class object, with any arguments, on a
\* class with any number of default slots.
InitConstruct ==
    /\ stack = CallStackNew
    /\ frames = <<>>
    /\ lastExit = NoExit
    /\ classObjs = <<>>
    /\ class_initialized = {}
    /\ calls = <<>>
    /\ initRuns = <<>>
    /\ failedInit = {}
    /\ instances = {}
    /\ lastResult = NoResult
    /\ traits = [c \in Classes |-> <<>>]
    /\ ivtable = [c \in Classes |-> VTableEmpty]
    /\ objects = [c \in Classes |-> NoObject]
    /\ cur = Idle
    /\ lastSuper = NoSuper
    /\ obj = NoData
    /\ protos = <<>>
    /\ lastOp = NoOp
    /\ call = NoCall
    /\ generic = NoGeneric
    /\ arena = <<>>
    /\ lastApply = NoApply
    /\ lastCall = NoClassCall
    /\ \E cls \in CtorClasses, n \in 0..MaxSlots, arguments \in Arguments,
          fault \in {"none", "allocator", "call_init"} :
         ctor = [NoCtor EXCEPT !.phase = "ready", !.class = cls,
                               !.defaults = [i \in 1..n |-> <<"d", i>>],
                               !.args = arguments, !.fault = fault]
    /\ klass = NoKlass
    /\ ifc = NoIfc
    /\ qn = NoQn
    /\ shown = NoShown
    /\ fin = NoFin
    /\ bor = NoBor
    /\ heap = NoHeap
    /\ inst = NoInst

SpecConstruct == InitConstruct /\ [][ConstructNext]_vars

\* The instance table of K is built and link_interfaces is about to run, on any
\* hierarchy of K, S, I and J the loader may hand over.  The loop of
\* link_interfaces runs to its end once entered.
InitIface ==
    /\ stack = CallStackNew
    /\ frames = <<>>
    /\ lastExit = NoExit
    /\ classObjs = <<>>
    /\ class_initialized = {}
    /\ calls = <<>>
    /\ initRuns = <<>>
    /\ failedInit = {}
    /\ instances = {}
    /\ lastResult = NoResult
    /\ traits = [c \in Classes |-> <<>>]
    /\ ivtable = [c \in Classes |-> VTableEmpty]
    /\ objects = [c \in Classes |-> NoObject]
    /\ cur = Idle
    /\ lastSuper = NoSuper
    /\ obj = NoData
    /\ protos = <<>>
    /\ lastOp = NoOp
    /\ call = NoCall
    /\ generic = NoGeneric
    /\ arena = <<>>
    /\ lastApply = NoApply
    /\ lastCall = NoClassCall
    /\ ctor = NoCtor
    /\ klass = NoKlass
    /\ \E dk \in DirectOf.K, ds \in DirectOf.S, di \in DirectOf.I, dj \in DirectOf.J,
          sk \in SuperOf.K, ti \in TraitsOf.I, tj \in TraitsOf.J, props \in IfaceTables :
         ifc = [NoIfc EXCEPT
                   !.phase = "ready",
                   !.descs =
                       [K |-> [is_interface |-> FALSE, direct_interfaces |-> dk,
                               super_class_name |-> sk, instance_traits |-> <<>>],
                        S |-> [is_interface |-> FALSE, direct_interfaces |-> ds,
                               super_class_name |-> None, instance_traits |-> <<>>],
                        I |-> [is_interface |-> TRUE, direct_interfaces |-> di,
                               super_class_name |-> None, instance_traits |-> ti],
                        J |-> [is_interface |-> TRUE, direct_interfaces |-> dj,
                               super_class_name |-> None, instance_traits |-> tj]],
                   !.vt = [VTableEmpty EXCEPT !.props = props, !.inited = TRUE],
                   !.vt0 = [VTableEmpty EXCEPT !.props = props, !.inited = TRUE]]
    /\ qn = NoQn
    /\ shown = NoShown
    /\ fin = NoFin
    /\ bor = NoBor
    /\ heap = NoHeap
    /\ inst = NoInst

SpecIface == InitIface /\ [][IfaceNext]_vars /\ WF_vars(IfaceNext)

\* The early class Object is woven; classes are built with from_class, each
\* over a class object built before or over no superclass.
InitBuildClass ==
    /\ stack = CallStackNew
    /\ frames = <<>>
    /\ lastExit = NoExit
    /\ classObjs = <<>>
    /\ class_initialized = {}
    /\ calls = <<>>
    /\ initRuns = <<>>
    /\ failedInit = {}
    /\ instances = {}
    /\ lastResult = NoResult
    /\ traits = [c \in Classes |-> <<>>]
    /\ ivtable = [c \in Classes |-> VTableEmpty]
    /\ objects = [c \in Classes |-> NoObject]
    /\ cur = Idle
    /\ lastSuper = NoSuper
    /\ obj = NoData
    /\ protos = <<>>
    /\ lastOp = NoOp
    /\ call = NoCall
    /\ generic = NoGeneric
    /\ arena = <<>>
    /\ lastApply = NoApply
    /\ lastCall = NoClassCall
    /\ ctor = NoCtor
    /\ klass = [on |-> TRUE,
                 classes |-> [n \in {"Object"} |-> ObjectClass],
                 prototypes |-> [n \in {"Object"} |-> ObjectPrototype],
                 last |-> NoFromClass]
    /\ ifc = NoIfc
    /\ qn = NoQn
    /\ shown = NoShown
    /\ fin = NoFin
    /\ bor = NoBor
    /\ heap = NoHeap
    /\ inst = NoInst

SpecBuildClass == InitBuildClass /\ [][BuildClassNext]_vars

\* A text is about to be parsed as a fully qualified name, or a qualified name
\* is about to be rendered.
InitQName ==
    /\ stack = CallStackNew
    /\ frames = <<>>
    /\ lastExit = NoExit
    /\ classObjs = <<>>
    /\ class_initialized = {}
    /\ calls = <<>>
    /\ initRuns = <<>>
    /\ failedInit = {}
    /\ instances = {}
    /\ lastResult = NoResult
    /\ traits = [c \in Classes |-> <<>>]
    /\ ivtable = [c \in Classes |-> VTableEmpty]
    /\ objects = [c \in Classes |-> NoObject]
    /\ cur = Idle
    /\ lastSuper = NoSuper
    /\ obj = NoData
    /\ protos = <<>>
    /\ lastOp = NoOp
    /\ call = NoCall
    /\ generic = NoGeneric
    /\ arena = <<>>
    /\ lastApply = NoApply
    /\ lastCall = NoClassCall
    /\ ctor = NoCtor
    /\ klass = NoKlass
    /\ ifc = NoIfc
    /\ \/ \E text \in Strings(MaxLen) : qn = [NoQn EXCEPT !.op = "parse", !.text = text]
       \/ \E ns \in Namespaces(MaxLen - 2), name \in Strings(MaxLen - 2) :
            /\ Len(as_uri(ns)) + Len(name) + 2 <= MaxLen
            /\ qn = [NoQn EXCEPT !.op = "render", !.q = [ns |-> ns, name |-> name]]
    /\ shown = NoShown
    /\ fin = NoFin
    /\ bor = NoBor
    /\ heap = NoHeap
    /\ inst = NoInst

SpecQName == InitQName /\ [][QNameNext]_vars

\* The call stack is new; frames are pushed and popped and the stack is
\* displayed at any time.
InitTrace ==
    /\ stack = CallStackNew
    /\ frames = <<>>
    /\ lastExit = NoExit
    /\ classObjs = <<>>
    /\ class_initialized = {}
    /\ calls = <<>>
    /\ initRuns = <<>>
    /\ failedInit = {}
    /\ instances = {}
    /\ lastResult = NoResult
    /\ traits = [c \in Classes |-> <<>>]
    /\ ivtable = [c \in Classes |-> VTableEmpty]
    /\ objects = [c \in Classes |-> NoObject]
    /\ cur = Idle
    /\ lastSuper = NoSuper
    /\ obj = NoData
    /\ protos = <<>>
    /\ lastOp = NoOp
    /\ call = NoCall
    /\ generic = NoGeneric
    /\ arena = <<>>
    /\ lastApply = NoApply
    /\ lastCall = NoClassCall
    /\ ctor = NoCtor
    /\ klass = NoKlass
    /\ ifc = NoIfc
    /\ qn = NoQn
    /\ shown = [NoShown EXCEPT !.op = "new"]
    /\ fin = NoFin
    /\ bor = NoBor
    /\ heap = NoHeap
    /\ inst = NoInst

SpecTrace == InitTrace /\ [][TraceNext]_vars

\* A class object is allocated with from_class_partial; it is linked to a type,
\* its instance table is built and it is finished, in any order and any number
\* of times.
InitFinish ==
    /\ stack = CallStackNew
    /\ frames = <<>>
    /\ lastExit = NoExit
    /\ classObjs = <<>>
    /\ class_initialized = {}
    /\ calls = <<>>
    /\ initRuns = <<>>
    /\ failedInit = {}
    /\ instances = {}
    /\ lastResult = NoResult
    /\ traits = [c \in Classes |-> <<>>]
    /\ ivtable = [c \in Classes |-> VTableEmpty]
    /\ objects = [c \in Classes |-> NoObject]
    /\ cur = Idle
    /\ lastSuper = NoSuper
    /\ obj = NoData
    /\ protos = <<>>
    /\ lastOp = NoOp
    /\ call = NoCall
    /\ generic = NoGeneric
    /\ arena = <<>>
    /\ lastApply = NoApply
    /\ lastCall = NoClassCall
    /\ ctor = NoCtor
    /\ klass = NoKlass
    /\ ifc = NoIfc
    /\ qn = NoQn
    /\ shown = NoShown
    /\ \E class \in Descs : fin = [NoFin EXCEPT !.phase = "live", !.obj = Partial(class)]
    /\ bor = NoBor
    /\ heap = NoHeap
    /\ inst = NoInst

SpecFinish == InitFinish /\ [][FinishNext]_vars

\* run_class_initializer or link_interfaces is entered on a class object no
\* borrow of which is held.
InitBorrow ==
    /\ stack = CallStackNew
    /\ frames = <<>>
    /\ lastExit = NoExit
    /\ classObjs = <<>>
    /\ class_initialized = {}
    /\ calls = <<>>
    /\ initRuns = <<>>
    /\ failedInit = {}
    /\ instances = {}
    /\ lastResult = NoResult
    /\ traits = [c \in Classes |-> <<>>]
    /\ ivtable = [c \in Classes |-> VTableEmpty]
    /\ objects = [c \in Classes |-> NoObject]
    /\ cur = Idle
    /\ lastSuper = NoSuper
    /\ obj = NoData
    /\ protos = <<>>
    /\ lastOp = NoOp
    /\ call = NoCall
    /\ generic = NoGeneric
    /\ arena = <<>>
    /\ lastApply = NoApply
    /\ lastCall = NoClassCall
    /\ ctor = NoCtor
    /\ klass = NoKlass
    /\ ifc = NoIfc
    /\ qn = NoQn
    /\ shown = NoShown
    /\ fin = NoFin
    /\ \/ \E flag \in BOOLEAN :
            bor = [NoBor EXCEPT !.pc = 1, !.code = run_class_initializer_code, !.flag = flag]
       \/ \E turns \in 1..MaxLoop, fails \in BOOLEAN, copies \in 0..MaxLoop, flag \in BOOLEAN :
            bor = [NoBor EXCEPT !.pc = 1, !.flag = flag,
                                !.code = link_interfaces_code(turns, fails, copies)]
    /\ heap = NoHeap
    /\ inst = NoInst

SpecBorrow == InitBorrow /\ [][BorrowNext]_vars

\* One object, an instance to be constructed or a class object left by
\* from_class_partial, with the default slots of its table.
InitInstall ==
    /\ stack = CallStackNew
    /\ frames = <<>>
    /\ lastExit = NoExit
    /\ classObjs = <<>>
    /\ class_initialized = {}
    /\ calls = <<>>
    /\ initRuns = <<>>
    /\ failedInit = {}
    /\ instances = {}
    /\ lastResult = NoResult
    /\ traits = [c \in Classes |-> <<>>]
    /\ ivtable = [c \in Classes |-> VTableEmpty]
    /\ objects = [c \in Classes |-> NoObject]
    /\ cur = Idle
    /\ lastSuper = NoSuper
    /\ obj = NoData
    /\ protos = <<>>
    /\ lastOp = NoOp
    /\ call = NoCall
    /\ generic = NoGeneric
    /\ arena = <<>>
    /\ lastApply = NoApply
    /\ lastCall = NoClassCall
    /\ ctor = NoCtor
    /\ klass = NoKlass
    /\ ifc = NoIfc
    /\ qn = NoQn
    /\ shown = NoShown
    /\ fin = NoFin
    /\ bor = NoBor
    /\ heap = NoHeap
    /\ \E kind \in {"instance", "class"}, defaults \in DefaultLists :
         inst = [NoInst EXCEPT !.kind = kind, !.defaults = defaults]

SpecInstall == InitInstall /\ [][InstallNext]_vars

\* An empty heap; a step that can be taken is taken, so that a lookup that
\* has begun is run on.
InitHeap ==
    /\ stack = CallStackNew
    /\ frames = <<>>
    /\ lastExit = NoExit
    /\ classObjs = <<>>
    /\ class_initialized = {}
    /\ calls = <<>>
    /\ initRuns = <<>>
    /\ failedInit = {}
    /\ instances = {}
    /\ lastResult = NoResult
    /\ traits = [c \in Classes |-> <<>>]
    /\ ivtable = [c \in Classes |-> VTableEmpty]
    /\ objects = [c \in Classes |-> NoObject]
    /\ cur = Idle
    /\ lastSuper = NoSuper
    /\ obj = NoData
    /\ protos = <<>>
    /\ lastOp = NoOp
    /\ call = NoCall
    /\ generic = NoGeneric
    /\ arena = <<>>
    /\ lastApply = NoApply
    /\ lastCall = NoClassCall
    /\ ctor = NoCtor
    /\ klass = NoKlass
    /\ ifc = NoIfc
    /\ qn = NoQn
    /\ shown = NoShown
    /\ fin = NoFin
    /\ bor = NoBor
    /\ heap = NoHeap
    /\ inst = NoInst

SpecHeap == InitHeap /\ [][HeapNext]_vars /\ WF_vars(HeapNext)

\* A class object that holds an interface list from an earlier linking, or
\* none, about to be linked.
InitRelink ==
    /\ stack = CallStackNew
    /\ frames = <<>>
    /\ lastExit = NoExit
    /\ classObjs = <<>>
    /\ class_initialized = {}
    /\ calls = <<>>
    /\ initRuns = <<>>
    /\ failedInit = {}
    /\ instances = {}
    /\ lastResult = NoResult
    /\ traits = [c \in Classes |-> <<>>]
    /\ ivtable = [c \in Classes |-> VTableEmpty]
    /\ objects = [c \in Classes |-> NoObject]
    /\ cur = Idle
    /\ lastSuper = NoSuper
    /\ obj = NoData
    /\ protos = <<>>
    /\ lastOp = NoOp
    /\ call = NoCall
    /\ generic = NoGeneric
    /\ arena = <<>>
    /\ lastApply = NoApply
    /\ lastCall = NoClassCall
    /\ ctor = NoCtor
    /\ klass = NoKlass
    /\ \E dk \in RelinkDirect, ds \in DirectOf.S, di \in DirectOf.I, dj \in {<<>>},
          sk \in SuperOf.K, ti \in TraitsOf.I, tj \in {<<>>}, props \in IfaceTables,
          stored \in StoredLists :
         ifc = [NoIfc EXCEPT
                   !.phase = "ready",
                   !.written = stored,
                   !.written0 = stored,
                   !.descs =
                       [K |-> [is_interface |-> FALSE, direct_interfaces |-> dk,
                               super_class_name |-> sk, instance_traits |-> <<>>],
                        S |-> [is_interface |-> FALSE, direct_interfaces |-> ds,
                               super_class_name |-> None, instance_traits |-> <<>>],
                        I |-> [is_interface |-> TRUE, direct_interfaces |-> di,
                               super_class_name |-> None, instance_traits |-> ti],
                        J |-> [is_interface |-> TRUE, direct_interfaces |-> dj,
                               super_class_name |-> None, instance_traits |-> tj]],
                   !.vt = [VTableEmpty EXCEPT !.props = props, !.inited = TRUE],
                   !.vt0 = [VTableEmpty EXCEPT !.props = props, !.inited = TRUE]]
    /\ qn = NoQn
    /\ shown = NoShown
    /\ fin = NoFin
    /\ bor = NoBor
    /\ heap = NoHeap
    /\ inst = NoInst

SpecRelink == InitRelink /\ [][IfaceNext]_vars

\* The frames exec invocations in flight have pushed, above the base frames.
BaseFrames == Len(stack) - Len(frames)

\* C1: every exit of exec leaves the call-stack depth it found; the frames on the
\* stack are exactly those of the invocations still in flight, in call order.
C1_ExecBalanced ==
    /\ lastExit.path /= "none" => lastExit.after = lastExit.before
    /\ BaseFrames \in {0, 1}
    /\ \A i \in 1..Len(frames) :
         /\ frames[i].entry = BaseFrames + i - 1
         /\ stack[BaseFrames + i] = [node |-> "Method", method |-> frames[i].method,
                                     superclass |-> frames[i].superclass]
    /\ \A i \in 1..BaseFrames : stack[i].node = "GlobalInit"

\* C1 witness: a nested invocation returned an error and one returned early.
C1_Witness ==
    /\ lastExit.path = "err"
    /\ lastExit.before >= 2
    /\ Len(frames) >= 1




(***************************************************************************)
(*                      Class lifecycle properties                         *)
(***************************************************************************)

\* Invocations of the class initializer of descriptor d, and with receiver c.
Runs(d) == Cardinality({i \in 1..Len(initRuns) : initRuns[i].class = d})
RunsOn(c) == Cardinality({i \in 1..Len(initRuns) : initRuns[i].receiver = c})

\* Position of a step in a log (0 when absent).
Pos(log, step) ==
    IF \E i \in 1..Len(log) : log[i] = step
    THEN CHOOSE i \in 1..Len(log) : log[i] = step
    ELSE 0

\* C2: over any sequence of from_class, into_finished_class, run_class_initializer
\* and construct calls, re-entrant ones included, the class initializer of one
\* descriptor is invoked at most once.
C2_InitializerAtMostOnce == \A d \in Descs : Runs(d) <= 1

\* C2 witness: while the initializer of the only class object is still running,
\* an instance of it was constructed and a re-entrant run_class_initializer
\* returned without invoking anything.
C2_Witness ==
    /\ Len(classObjs) = 1
    /\ Len(calls) = 1
    /\ 1 \in instances
    /\ lastResult = Result("run_class_initializer", "Ok", FALSE, FALSE)

\* C3: a failing class initializer makes the waiting operation return the error
\* and leaves the descriptor's flag set: it ran once and is never run again, a
\* later run_class_initializer returning Ok without invoking it.
C3_FailedInitializerNoRetry ==
    /\ [](/\ failedInit \subseteq class_initialized
          /\ \A d \in failedInit : Runs(d) = 1
          /\ (lastResult.op = "run_class_initializer" /\ ~lastResult.ran)
                => lastResult.res = "Ok")
    /\ [][failedInit' /= failedInit =>
            /\ lastResult'.res = "Err" /\ lastResult'.ran
            /\ initRuns' = initRuns]_vars

\* C3 witness: every class object's initializer has failed, and a later
\* run_class_initializer returned Ok without running it.
C3_Witness ==
    /\ Len(classObjs) >= 1
    /\ \A c \in 1..Len(classObjs) : classObjs[c].class \in failedInit
    /\ calls = <<>>
    /\ lastResult = Result("run_class_initializer", "Ok", FALSE, FALSE)

\* C4 as claimed: every finished class object had the class initializer run
\* exactly once with itself as receiver.
C4_Original ==
    \A c \in 1..Len(classObjs) : classObjs[c].finished => RunsOn(c) = 1

\* C4 as amended: for every finished class object the initializer of its
\* descriptor has been invoked exactly once in total, on a class object of that
\* descriptor, hence at most once with the finished object itself as receiver.
C4_OncePerDescriptor ==
    \A c \in 1..Len(classObjs) :
        classObjs[c].finished =>
            /\ classObjs[c].class \in class_initialized
            /\ Runs(classObjs[c].class) = 1
            /\ RunsOn(c) <= 1
            /\ \A i \in 1..Len(initRuns) :
                 initRuns[i].class = classObjs[c].class
                    => classObjs[initRuns[i].receiver].class = classObjs[c].class

\* C4 witness: two finished class objects of one descriptor; the initializer ran
\* on the first and never on the second.
C4_Witness ==
    /\ Len(classObjs) = 2
    /\ classObjs[1].class = classObjs[2].class
    /\ classObjs[1].finished /\ classObjs[2].finished
    /\ RunsOn(1) = 1 /\ RunsOn(2) = 0

\* C5 as claimed: from_class links the class to its meta-class before it links
\* the prototype.
C5_Original ==
    \A c \in 1..Len(classObjs) :
        classObjs[c].via = "from_class" =>
            Pos(classObjs[c].log, "link_type") < Pos(classObjs[c].log, "link_prototype")

\* C5 as amended: from_class runs Partial, Prototype-linked (allocate_prototype,
\* link_prototype), Typed (link_type), Instance-vtable-initialized, Finished
\* (class vtable, interfaces, slots, initializer) in exactly this order, each
\* step entered only after the one before it completed.
C5_FromClassOrder ==
    \A c \in 1..Len(classObjs) :
        classObjs[c].via = "from_class" =>
            /\ classObjs[c].log =
                 <<"from_class_partial", "allocate_prototype", "link_prototype",
                   "link_type", "init_instance_vtable", "init_class_vtable",
                   "link_interfaces", "install_class_vtable_and_slots",
                   "run_class_initializer">>
            /\ classObjs[c].prototype
            /\ classObjs[c].instance_of = "Class"
            /\ classObjs[c].ivt

\* C5 witness: a class object built by from_class reached Finished.
C5_Witness ==
    \E c \in 1..Len(classObjs) :
        /\ classObjs[c].via = "from_class"
        /\ classObjs[c].finished
        /\ RunsOn(c) = 1

\* C6: from_class_partial (alone or inside from_class) returns an error and
\* allocates nothing when the base class is final or an interface; no class
\* object has a final or interface superclass.
C6_NoFinalOrInterfaceBase ==
    /\ [](/\ \A c \in 1..Len(classObjs) :
               classObjs[c].superclass_object /= 0 =>
                   /\ ~is_final(classObjs[classObjs[c].superclass_object].class)
                   /\ ~is_interface(classObjs[classObjs[c].superclass_object].class)
          /\ lastResult.badSuper => lastResult.res = "Err")
    /\ [][(lastResult'.badSuper /\ lastResult' /= lastResult)
            => classObjs' = classObjs]_vars

\* C6 witness: from_class_partial was refused an interface as base class.
C6_Witness ==
    /\ lastResult = Result("from_class_partial", "Err", FALSE, TRUE)
    /\ Len(classObjs) = 1
    /\ is_interface(classObjs[1].class)

(***************************************************************************)
(*                  Slot layout and supercall properties                   *)
(***************************************************************************)

\* The slot traits a class declares directly, in declaration order.
IsSlotTrait(t) == t.kind \in SlotKinds
OwnSlots(c) == SelectSeq(traits[c], IsSlotTrait)
Declares(c, n) == \E i \in 1..Len(traits[c]) : traits[c][i].name = n
IsSlotEntry(p) == p.kind \in {"Slot", "ConstSlot"}

\* C7: for a class b extending a whose table has k slots, the slots b
\* declares get the ids k, k+1, ... in declaration order, every slot
\* inherited from a keeps its id, and a constructed instance of b holds a's
\* defaults followed by b's defaults.
C7_SlotLayout ==
    \A b \in Classes :
        LET a == superclass_object(b)
            base == SuperVTable(ivtable, b)
            k == Len(default_slots(base))
            own == OwnSlots(b)
        IN
        ivtable[b].inited =>
            /\ \A j \in 1..Len(own) :
                   /\ IsSlotEntry(get_trait(ivtable[b], own[j].name))
                   /\ get_trait(ivtable[b], own[j].name).id = k + j - 1
            /\ \A n \in Names :
                   (IsSlotEntry(get_trait(base, n)) /\ ~Declares(b, n))
                       => get_trait(ivtable[b], n) = get_trait(base, n)
            /\ objects[b].made =>
                   objects[b].slots =
                       default_slots(base) \o [j \in 1..Len(own) |-> own[j].default]

\* The scenario Point{x, y} / Point3D{z}: ids 0, 1, 2 and a three-slot instance.
C7_Witness ==
    /\ traits["A"] = <<[name |-> "x", kind |-> "Slot", default |-> <<"A", "x">>],
                       [name |-> "y", kind |-> "Slot", default |-> <<"A", "y">>]>>
    /\ traits["B"] = <<[name |-> "z", kind |-> "Slot", default |-> <<"B", "z">>]>>
    /\ objects["B"].made
    /\ get_trait(ivtable["B"], "x") = Slot(0)
    /\ get_trait(ivtable["B"], "y") = Slot(1)
    /\ get_trait(ivtable["B"], "z") = Slot(2)
    /\ objects["B"].slots = <<<<"A", "x">>, <<"A", "y">>, <<"B", "z">>>>

\* The class object a recorded supercall operation was performed on, and the
\* entry its table holds for the name.
SuperOn == superclass_object(lastSuper.from.class)
SuperEntry == get_trait(ivtable[SuperOn], lastSuper.name)

\* The nearest class at or above c that declares the name.
RECURSIVE DeclaringClass(_, _)
DeclaringClass(c, n) ==
    IF c = None THEN None
    ELSE IF Declares(c, n) THEN c
    ELSE DeclaringClass(superclass_object(c), n)

\* C8: call_super resolves the name in the table of the class it is called
\* on: when that entry is a method, the method that runs is the one declared
\* nearest at or above that class, bound to its declaring class, with the
\* original receiver.  With f declared by A, B and C, super.f() from B's f on
\* a C instance runs A's f on that instance, bound to A.
C8_SupercallDirection ==
    /\ [](lastSuper.op = "call_super" /\ SuperEntry.kind = "Method" =>
            /\ lastSuper.out.kind = "invoke"
            /\ lastSuper.out.callee =
                  [class |-> DeclaringClass(SuperOn, lastSuper.name),
                   method |-> lastSuper.name, role |-> "Method",
                   receiver |-> lastSuper.from.receiver])
    /\ [](lastSuper.op = "call_super" /\ lastSuper.name = "f" /\ lastSuper.from.class = "B" =>
            lastSuper.out.callee.class = "A")
    /\ [][(lastSuper' /= lastSuper /\ lastSuper'.op = "call_super"
              /\ lastSuper'.out.kind = "invoke") => cur' = lastSuper'.out.callee]_vars

\* B's f, running on the C instance, has performed super.f() and A's f runs.
C8_Witness ==
    /\ lastSuper.op = "call_super"
    /\ lastSuper.from = [class |-> "B", method |-> "f", role |-> "Method", receiver |-> "C"]
    /\ cur = [class |-> "A", method |-> "f", role |-> "Method", receiver |-> "C"]
    /\ get_trait(ivtable["C"], "f") /= get_trait(ivtable["A"], "f")

\* C9 (as claimed): each of call_super, get_super and set_super, when the
\* name is absent from the table of the class it is called on, fails with a
\* ReferenceError naming the method and the class, and invokes nothing.
C9_AbsentIsReferenceError ==
    (lastSuper.op /= "none" /\ SuperEntry.kind = "None") =>
        /\ lastSuper.out.kind = "error"
        /\ lastSuper.out.error.type = "ReferenceError"
        /\ {"method", "class"} \subseteq lastSuper.out.error.names
        /\ lastSuper.out.callee = Idle

IndexOf(seq, name) ==
    IF Contains(seq, name) THEN CHOOSE i \in 1..Len(seq) : seq[i] = name ELSE 0

NamedPublic(mn) == contains_public_namespace(mn) /\ local_name(mn) /= None

\* C11 (as claimed): set_property_local fails with ReferenceError on a sealed
\* object and for a multiname without the public namespace; on a non-sealed
\* object it succeeds, a following get_property_local returns the written
\* value, and the name is enumerated, a newly inserted name after every name
\* inserted before it.
C11_Original ==
    [][lastOp'.op = "set_property_local" =>
        LET mn == lastOp'.mn IN
        /\ (NamedPublic(mn) /\ is_sealed(obj)) => lastOp'.res = "ReferenceError"
        /\ ~contains_public_namespace(mn) => lastOp'.res = "ReferenceError"
        /\ (NamedPublic(mn) /\ ~is_sealed(obj)) =>
              /\ lastOp'.res = "Ok"
              /\ get_property_local(obj', protos', mn) = Ok(lastOp'.value)
              /\ Contains(obj'.enumerants, local_name(mn))
              /\ local_name(mn) \notin DOMAIN obj.values =>
                    \A i \in 1..Len(obj.enumerants) :
                        /\ IndexOf(obj'.enumerants, obj.enumerants[i]) > 0
                        /\ IndexOf(obj'.enumerants, obj.enumerants[i])
                              < IndexOf(obj'.enumerants, local_name(mn))]_vars

\* C11: set_property_local fails with ReferenceError, changing nothing, on a
\* sealed object, for a multiname without the public namespace and for one
\* without a local name.  Otherwise it succeeds, only the written name changes
\* in the map, and a following get_property_local returns the written value;
\* a name that was not in the map is appended to the end of the enumerant
\* list, and for a name that was in the map the enumerant list is unchanged
\* (a property made non-enumerable stays out of the enumeration).
C11_SetPropertyLocal ==
    [][lastOp'.op = "set_property_local" =>
        LET mn == lastOp'.mn
            name == local_name(mn)
        IN
        IF is_sealed(obj) \/ ~NamedPublic(mn)
        THEN lastOp'.res = "ReferenceError" /\ obj' = obj
        ELSE /\ lastOp'.res = "Ok"
             /\ get_property_local(obj', protos', mn) = Ok(lastOp'.value)
             /\ DOMAIN obj'.values = DOMAIN obj.values \cup {name}
             /\ \A n \in DOMAIN obj.values \ {name} : obj'.values[n] = obj.values[n]
             /\ obj'.enumerants = IF name \in DOMAIN obj.values THEN obj.enumerants
                                  ELSE Append(obj.enumerants, name)
             /\ obj'.slots = obj.slots /\ obj'.bound_methods = obj.bound_methods]_vars

\* A property that was made non-enumerable has been written again: the write
\* succeeded and the name is still not enumerated.
C11_Witness ==
    /\ lastOp.op = "set_property_local"
    /\ lastOp.res = "Ok"
    /\ obj.values[local_name(lastOp.mn)] = lastOp.value
    /\ ~Contains(obj.enumerants, local_name(lastOp.mn))
    /\ Len(obj.enumerants) = 1

\* The script-visible writes of dynamic properties.
LocalWrites == {"set_property_local", "init_property_local", "delete_property_local"}

\* C12: an object of a sealed class has no dynamic property and no
\* enumerant, and no set_property_local, init_property_local or
\* delete_property_local changes its dynamic map or its enumerant list.
C12_SealedMapFixed ==
    /\ [](is_sealed(obj) => obj.values = EmptyMap /\ obj.enumerants = <<>>)
    /\ [][(is_sealed(obj) /\ lastOp'.op \in LocalWrites) =>
            /\ obj'.values = obj.values
            /\ obj'.enumerants = obj.enumerants]_vars

\* A write to a sealed object was rejected, its map still empty.
C12_Witness ==
    /\ is_sealed(obj)
    /\ lastOp.op = "init_property_local"
    /\ NamedPublic(lastOp.mn)
    /\ lastOp.res = "ReferenceError"
    /\ obj.values = EmptyMap

\* The prototypes, nearest first, whose dynamic map has the name.
Holders(chain, name) == {i \in 1..Len(chain) : name \in DOMAIN chain[i]}
Nearest(chain, name) ==
    CHOOSE i \in Holders(chain, name) : \A j \in Holders(chain, name) : i <= j

\* C13: get_property_local fails with ReferenceError for a multiname without
\* the public namespace or without a local name; otherwise it returns the
\* object's own value if it has one, else the value of the nearest prototype
\* that has the name, else undefined on a non-sealed (or classless) object
\* and ReferenceError on a sealed one; no object is modified.
C13_GetPropertyLocal ==
    [][lastOp'.op = "get_property_local" =>
        LET mn == lastOp'.mn
            name == local_name(mn)
            out == [res |-> lastOp'.res, val |-> lastOp'.ret]
        IN
        /\ obj' = obj /\ protos' = protos
        /\ ~NamedPublic(mn) => out.res = "ReferenceError"
        /\ NamedPublic(mn) =>
             IF name \in DOMAIN obj.values THEN out = Ok(obj.values[name])
             ELSE IF Holders(protos, name) /= {}
                 THEN out = Ok(protos[Nearest(protos, name)][name])
             ELSE IF is_sealed(obj) THEN out.res = "ReferenceError"
             ELSE out = Ok(Undefined)]_vars

\* A sealed object has read a name from the nearer of two prototypes that
\* both hold it.
C13_Witness ==
    /\ lastOp.op = "get_property_local"
    /\ is_sealed(obj)
    /\ Holders(protos, local_name(lastOp.mn)) = {1, 2}
    /\ lastOp.res = "Ok"
    /\ lastOp.ret = <<"q", local_name(lastOp.mn)>>

\* The names visited by iterating from index i with get_next_enumerant and
\* get_enumerant_name until the stop sentinel.
RECURSIVE Iterate(_, _, _)
Iterate(d, i, fuel) ==
    IF fuel = 0 \/ get_next_enumerant(d, i).res = "None" THEN <<>>
    ELSE <<get_enumerant_name(d, get_next_enumerant(d, i).n).val>>
            \o Iterate(d, get_next_enumerant(d, i).n, fuel - 1)

\* C14: with n enumerants, get_next_enumerant(i) is i+1 for 0 <= i < n and
\* None for i >= n; get_enumerant_name(0) is nothing and get_enumerant_name(i)
\* for 1 <= i <= n is the i-th enumerant; iterating from 0 visits every
\* enumerant once, in order, and stops.
C14_Enumeration ==
    LET n == Len(obj.enumerants)
        i == lastOp.index
    IN
    /\ lastOp.op = "get_next_enumerant" =>
          /\ i < n => (lastOp.res = "Some" /\ lastOp.ret = <<i + 1>>)
          /\ i >= n => lastOp.res = "None"
    /\ lastOp.op = "get_enumerant_name" =>
          /\ i = 0 => lastOp.res = "None"
          /\ (1 <= i /\ i <= n) =>
                (lastOp.res = "Some" /\ lastOp.ret = <<obj.enumerants[i]>>)
    /\ Iterate(obj, 0, n + 1) = [k \in 1..n |-> <<obj.enumerants[k]>>]

\* With two enumerants, the index after the last one gave the stop sentinel.
C14_Witness ==
    /\ Len(obj.enumerants) = 2
    /\ lastOp.op = "get_next_enumerant"
    /\ lastOp.index = 2
    /\ lastOp.res = "None"

\* C15 (as claimed): delete_property_local reports success only for a
\* public-namespace name that no trait of the object's table backs; for a
\* trait-backed name or a multiname without the public namespace it reports
\* failure and changes nothing; on success the name is gone from the map and
\* from the enumerant list.
C15_DeleteOnlyNonTrait ==
    [][lastOp'.op = "delete_property_local" =>
        LET mn == lastOp'.mn
            name == local_name(mn)
        IN
        /\ (~contains_public_namespace(mn) \/ (name /= None /\ object_has_trait(obj, name))) =>
              (lastOp'.res = "false" /\ obj' = obj)
        /\ lastOp'.res = "true" =>
              (name \notin DOMAIN obj'.values /\ ~Contains(obj'.enumerants, name))]_vars

(***************************************************************************)
(*                  Slot and bound-method properties                       *)
(***************************************************************************)

SlotOps == {"get_slot", "set_slot", "init_slot"}

\* C16: get_slot, set_slot and init_slot with an id at or beyond the slot
\* count return an error and leave the slot vector as it was; with an id
\* below the count get_slot returns that slot, and set_slot and init_slot
\* change that slot only, keep the length, and a following get_slot of the
\* id returns the written value.
C16_SlotsBoundsChecked ==
    [][lastOp'.op \in SlotOps =>
        LET id == lastOp'.index
            n == Len(obj.slots)
        IN
        /\ id >= n => (lastOp'.res = "Err" /\ obj' = obj)
        /\ (id < n /\ lastOp'.op = "get_slot") =>
              (lastOp'.res = "Ok" /\ lastOp'.ret = obj.slots[id + 1] /\ obj' = obj)
        /\ (id < n /\ lastOp'.op /= "get_slot") =>
              /\ lastOp'.res = "Ok"
              /\ Len(obj'.slots) = n
              /\ \A j \in 1..n : j /= id + 1 => obj'.slots[j] = obj.slots[j]
              /\ get_slot(obj', id) = Ok(lastOp'.value)
              /\ obj'.values = obj.values /\ obj'.enumerants = obj.enumerants
              /\ obj'.bound_methods = obj.bound_methods]_vars

\* After a write to slot 0 succeeded, init_slot with the id equal to the slot
\* count was refused.
C16_Witness ==
    /\ Len(obj.slots) = 2
    /\ obj.slots[1] = <<"v1">>
    /\ obj.slots[2] = <<"d", 2>>
    /\ lastOp.op = "init_slot"
    /\ lastOp.index = 2
    /\ lastOp.res = "Err"

DispIds == 0..(MaxDisp + 1)

\* C17: no bound method is installed at the start; install_bound_method(id, f)
\* succeeds, afterwards get_bound_method(id) is f whatever was there before,
\* installing f again changes nothing, and the entry of every other id is as
\* before; no other operation changes any entry, so an id that was never
\* installed yields nothing.
C17_BoundMethodCache ==
    /\ \A j \in DispIds : get_bound_method(obj, j) = NoFn
    /\ [][IF lastOp'.op = "install_bound_method"
          THEN /\ lastOp'.res = "Ok"
               /\ get_bound_method(obj', lastOp'.index) = lastOp'.value
               /\ install_bound_method(obj', lastOp'.index, lastOp'.value) = obj'
               /\ \A j \in DispIds \ {lastOp'.index} :
                     get_bound_method(obj', j) = get_bound_method(obj, j)
               /\ obj'.slots = obj.slots
          ELSE \A j \in DispIds : get_bound_method(obj', j) = get_bound_method(obj, j)]_vars

\* Ids 0 and 2 are installed, id 0 for the second time with another function;
\* id 1, inside the table but never installed, yields nothing.
C17_Witness ==
    /\ obj.bound_methods = <<<<"f2">>, NoFn, <<"f1">>>>
    /\ lastOp.op = "get_bound_method"
    /\ lastOp.index = 1
    /\ lastOp.res = "None"
    /\ lastOp.ret = NoFn

(***************************************************************************)
(*                    Receiver and arity properties                        *)
(***************************************************************************)

\* exec has been entered for the invocation under observation.
Entered == call.phase \in {"running", "returned"}

\* coerce_to_object of a caller-supplied value: a primitive is boxed.
Coerced(v) == IF v = "prim" THEN "boxed" ELSE v

\* C18: the receiver the body runs on is the bound receiver if there is one,
\* whatever the caller passes; else the global object when the caller passed
\* null or undefined; else the coerced caller value, and if the coercion
\* fails exec returns that error with no frame pushed and no body run.  The
\* kind of the executable plays no part.
C18_EffectiveReceiver ==
    Entered =>
        LET e == call.exec
            out == call.out
        IN
        IF e.bound_receiver /= None
        THEN /\ out.why /= "coerce"
             /\ out.path = "invoked" => out.receiver = e.bound_receiver
        ELSE IF call.unbound \in {"Null", "Undefined"}
        THEN /\ out.why /= "coerce"
             /\ out.path = "invoked" => out.receiver = "global"
        ELSE IF call.fault = "coerce"
        THEN /\ out.path = "early" /\ out.why = "coerce"
             /\ call.pushed = 0 /\ stack = CallStackNew
             /\ call.phase = "returned"
        ELSE /\ out.why /= "coerce"
             /\ out.path = "invoked" => out.receiver = Coerced(call.unbound)

\* A bytecode method bound to a receiver runs on it although the caller
\* passed an object of its own.
C18_Witness ==
    /\ call.phase = "running"
    /\ call.exec.kind = "Action"
    /\ call.exec.bound_receiver = "objB"
    /\ call.unbound = "objU"
    /\ call.out.receiver = "objB"
    /\ Len(stack) = 1

\* More arguments than declared parameters, to a method that is not variadic.
TooManyArgs == call.nargs > call.exec.sig /\ ~call.exec.variadic

\* The receiver of the invocation under observation cannot be resolved.
CoerceFails ==
    /\ call.exec.bound_receiver = None
    /\ call.unbound \notin {"Null", "Undefined"}
    /\ call.fault = "coerce"

\* C19 (as claimed): given too many arguments, a bytecode method that is
\* invoked gets the arguments truncated to the declared count, and a native
\* method fails (with the argument-count error unless an earlier step of
\* exec failed), its function not invoked and no frame pushed.
C19_Original ==
    (Entered /\ TooManyArgs) =>
        /\ (call.exec.kind = "Action" /\ call.out.path = "invoked") =>
              call.out.nargs = call.exec.sig
        /\ call.exec.kind = "Native" =>
              /\ call.out.path = "early" /\ call.pushed = 0 /\ stack = CallStackNew
              /\ (~CoerceFails /\ call.fault /= "activation") => call.out.why = "arity"

\* C19: given too many arguments, a bytecode method that is invoked gets the
\* arguments truncated to the declared count if it is unchecked, and all of
\* them if it is not; a native method fails (with the argument-count error
\* unless the receiver coercion or the activation failed first), its function
\* not invoked and no frame pushed.
C19_ArityAsymmetry ==
    (Entered /\ TooManyArgs) =>
        /\ (call.exec.kind = "Action" /\ call.out.path = "invoked") =>
              call.out.nargs = IF call.exec.unchecked THEN call.exec.sig ELSE call.nargs
        /\ call.exec.kind = "Native" =>
              /\ call.out.path = "early" /\ call.pushed = 0 /\ stack = CallStackNew
              /\ call.phase = "returned"
              /\ call.out.why = IF CoerceFails THEN "coerce"
                                ELSE IF call.fault = "activation" THEN "activation"
                                ELSE "arity"

\* A bytecode method with declared types runs with both of the two arguments
\* given for its one parameter.
C19_Witness ==
    /\ call.phase = "running"
    /\ call.exec.kind = "Action"
    /\ ~call.exec.unchecked /\ ~call.exec.variadic
    /\ call.exec.sig = 1 /\ call.nargs = 2
    /\ call.out.nargs = 2

(***************************************************************************)
(*                    Generic specialization properties                    *)
(***************************************************************************)

Apps == generic.applications

\* C20: as long as only apply has filled the cache, every cached class
\* object is marked as applied with the parameter it is cached under (`*`
\* for null), is not the generic class itself, and no two parameters share a
\* class object.  Every apply keeps all cached entries as they are; a
\* successful apply returns the entry cached under its parameter: the one
\* that was there, or else a class object created by this call, which it
\* caches; a failed apply changes nothing.
C20_ApplyMemoized ==
    /\ [](~generic.host =>
            /\ \A k \in DOMAIN Apps :
                  /\ Apps[k] \in 1..Len(arena)
                  /\ Apps[k] /= GenericId
                  /\ arena[Apps[k]].params = k
            /\ \A k1, k2 \in DOMAIN Apps : k1 /= k2 => Apps[k1] /= Apps[k2])
    /\ [][lastApply' /= lastApply =>
            /\ \A k \in DOMAIN Apps :
                  k \in DOMAIN generic'.applications /\ generic'.applications[k] = Apps[k]
            /\ lastApply'.res = "Err" => (generic' = generic /\ arena' = arena)
            /\ lastApply'.res = "Ok" =>
                  LET key == ObjectParam(lastApply'.args[1]) IN
                  /\ generic.is_generic
                  /\ Len(lastApply'.args) = 1
                  /\ key \in DOMAIN generic'.applications
                  /\ lastApply'.ret = generic'.applications[key]
                  /\ IF key \in DOMAIN Apps
                     THEN lastApply'.ret = Apps[key] /\ arena' = arena
                     ELSE /\ lastApply'.ret = Len(arena) + 1
                          /\ arena' = Append(arena, [params |-> key])]_vars

\* apply(null) and then apply(int) created two class objects; apply(null),
\* called again, has returned the first of them, marked `*`.
C20_Witness ==
    /\ ~generic.host
    /\ DOMAIN Apps = {Star, "int"}
    /\ Apps[Star] < Apps["int"]
    /\ lastApply.args = <<"Null">>
    /\ lastApply.res = "Ok"
    /\ lastApply.ret = Apps[Star]
    /\ arena[lastApply.ret].params = Star
    /\ lastApply.ret /= GenericId

\* The class of error an apply failure is: type_error builds a TypeError,
\* argument_error an ArgumentError; the others are not built by apply itself.
ErrorClass(err) ==
    CASE err = "TypeError1128" -> "TypeError"
      [] err = "ArgumentError1128" -> "ArgumentError"
      [] OTHER -> err

\* An apply that must fail: on a class that is not generic, or with a number
\* of type parameters other than one.
NotGenericApply == lastApply' /= lastApply /\ ~generic.is_generic
WrongArityApply ==
    lastApply' /= lastApply /\ generic.is_generic /\ Len(lastApply'.args) /= 1

\* C21 (as claimed): apply on a class that is not generic is an error, apply
\* on a generic class with other than one argument fails with an
\* ArgumentError; neither creates a class object or changes the cache.
C21_Original ==
    [][/\ NotGenericApply => lastApply'.res = "Err"
       /\ WrongArityApply =>
            (lastApply'.res = "Err" /\ ErrorClass(lastApply'.err) = "ArgumentError")
       /\ (NotGenericApply \/ WrongArityApply) =>
            (arena' = arena /\ generic' = generic)]_vars

\* C21: apply on a class that is not generic fails with error #1127, apply on
\* a generic class with other than one argument fails with TypeError #1128;
\* neither creates a class object or changes the cache.
C21_ApplyErrors ==
    [][/\ NotGenericApply => (lastApply'.res = "Err" /\ lastApply'.err = "Error1127")
       /\ WrongArityApply =>
            /\ lastApply'.res = "Err"
            /\ lastApply'.err = "TypeError1128"
            /\ ErrorClass(lastApply'.err) = "TypeError"
       /\ (NotGenericApply \/ WrongArityApply) =>
            (arena' = arena /\ generic' = generic /\ lastApply'.ret = 0)]_vars

\* With a specialization cached, apply with two type parameters has failed.
C21_Witness ==
    /\ generic.is_generic /\ ~generic.host
    /\ DOMAIN Apps = {"int"}
    /\ Len(arena) = 3
    /\ Len(lastApply.args) = 2
    /\ lastApply.res = "Err"
    /\ lastApply.err = "TypeError1128"

(***************************************************************************)
(*                    Class call and construct properties                  *)
(***************************************************************************)

Called == lastCall.op = "call"

\* C22 (as claimed): a class without call handler, called with one argument,
\* returns the argument coerced to its type, and called with any other
\* number of arguments fails with a TypeError; a call handler, if there is
\* one, is executed instead with all of the caller's arguments.
C22_Original ==
    Called =>
        /\ (lastCall.handler = NoHandler /\ Len(lastCall.args) = 1 /\ lastCall.out.res = "Ok") =>
              lastCall.out.val = coerce_to_type(lastCall.args[1], lastCall.class)
        /\ (lastCall.handler = NoHandler /\ Len(lastCall.args) /= 1) =>
              (lastCall.out.res = "Err" /\ lastCall.out.err = "TypeError1112")
        /\ lastCall.handler /= NoHandler =>
              (lastCall.out.via = "exec" /\ lastCall.out.passed = Len(lastCall.args))

\* C22: a class without call handler, called with one argument, returns the
\* argument coerced to its type (or the error of the coercion), and called
\* with any other number of arguments fails with ArgumentError #1112 without
\* coercing anything; a call handler, if there is one, is handed to exec with
\* the caller's receiver and all of the caller's arguments, whatever their
\* number, and neither the coercion nor the count check takes place.
C22_ClassCall ==
    Called =>
        /\ (lastCall.handler = NoHandler /\ Len(lastCall.args) = 1) =>
              /\ lastCall.out.via = "coerce"
              /\ lastCall.fault /= "coerce" =>
                    /\ lastCall.out.res = "Ok"
                    /\ lastCall.out.val = coerce_to_type(lastCall.args[1], lastCall.class)
              /\ lastCall.fault = "coerce" => lastCall.out.res = "Err"
        /\ (lastCall.handler = NoHandler /\ Len(lastCall.args) /= 1) =>
              /\ lastCall.out.via = "arity"
              /\ lastCall.out.res = "Err"
              /\ lastCall.out.err = "ArgumentError1112"
              /\ lastCall.out.val = NoValue
        /\ lastCall.handler /= NoHandler =>
              /\ lastCall.out.via = "exec"
              /\ lastCall.out.passed = Len(lastCall.args)
              /\ lastCall.out.err /= "ArgumentError1112"
              /\ lastCall.out.res = "Ok" =>
                    lastCall.out.val[1] = "handler"

\* A class without call handler has been called with two arguments.
C22_Witness ==
    /\ Called
    /\ lastCall.handler = NoHandler
    /\ Len(lastCall.args) = 2
    /\ lastCall.out.err = "ArgumentError1112"

\* The steps of a construct call that ran to its end, with the initializer m.
FullLog(m) == <<<<"allocator">>, <<"install_instance_slots">>, <<"exec", m, ctor.args>>>>

IsPrefix(a, b) == Len(a) <= Len(b) /\ SubSeq(b, 1, Len(a)) = a

\* The initializer the claim expects: the native one if the class has one.
ClaimedInit ==
    IF ctor.class.native_constructor /= ctor.class.constructor
    THEN ctor.class.native_constructor ELSE ctor.class.constructor

\* C23 (as claimed): construct invokes the allocator, installs the default
\* slot values, then runs the initializer with the caller's arguments, the
\* native initializer if the class has one and the declared constructor
\* otherwise; if the allocator or the initializer fails no instance is
\* returned.
C23_Original ==
    /\ IsPrefix(ctor.log, FullLog(ClaimedInit))
    /\ ctor.phase = "done" =>
          (ctor.log = FullLog(ClaimedInit) /\ ctor.ret.made
             /\ ctor.ret.slots = ctor.defaults)
    /\ ctor.phase = "failed" => ~ctor.ret.made

\* C23: construct invokes the allocator, installs the default slot values,
\* then runs the declared constructor (call_init) with the caller's
\* arguments, whether or not the class has a separate native initializer; a
\* failing allocator ends the call before anything else, a failing
\* initializer after the three steps, and in both cases the error is
\* returned and no instance.
C23_ConstructOrder ==
    /\ IsPrefix(ctor.log, FullLog(ctor.class.constructor))
    /\ ctor.phase = "done" =>
          /\ ctor.log = FullLog(ctor.class.constructor)
          /\ ctor.res = "Ok" /\ ctor.ret.made /\ ctor.ret.slots = ctor.defaults
          /\ ctor.fault = "none"
    /\ ctor.phase = "failed" =>
          /\ ctor.res = "Err" /\ ~ctor.ret.made
          /\ ctor.fault = "allocator" => ctor.log = <<<<"allocator">>>>
          /\ ctor.fault = "call_init" => ctor.log = FullLog(ctor.class.constructor)

\* An instance of a class with a separate native initializer was constructed
\* with two arguments and two default slots.
C23_Witness ==
    /\ ctor.phase = "done"
    /\ ctor.class.native_constructor = "native_init"
    /\ Len(ctor.args) = 2
    /\ Len(ctor.ret.slots) = 2
    /\ ctor.log[3] = <<"exec", "instance_init", ctor.args>>

(***************************************************************************)
(*                        Interface linking properties                     *)
(***************************************************************************)

\* The interfaces some path of direct interfaces, superclass links and
\* super-interfaces leads to from K.
ReachableInterfaces ==
    {t \in Closure(ifc.descs,
                   (Elems(ifc.descs["K"].direct_interfaces) \cap Types)
                       \cup ({ifc.descs["K"].super_class_name} \cap Types), 4) :
        ifc.descs[t].is_interface}

NoDuplicates(seq) == \A i, j \in 1..Len(seq) : seq[i] = seq[j] => i = j

Linked == ifc.phase = "linked"

Built == DOMAIN klass.classes \ {"Object"}
PrototypeOf(c) == klass.prototypes[klass.classes[c].prototype]

\* The constructor property of the prototype of c is c itself and is never
\* visited by enumeration.
ConstructorWired(c) ==
    /\ "constructor" \in DOMAIN PrototypeOf(c).data.values
    /\ PrototypeOf(c).data.values["constructor"] = ClassValue(c)
    /\ ~Contains(PrototypeOf(c).data.enumerants, "constructor")
    /\ ~Contains(Iterate(PrototypeOf(c).data, 0, MaxIndex), "constructor")

\* C26 as stated: the prototype of a class without superclass has no
\* prototype link.
C26_Original ==
    \A c \in Built :
        /\ PrototypeOf(c).proto =
              IF klass.classes[c].superclass_object /= None
              THEN klass.classes[klass.classes[c].superclass_object].prototype
              ELSE None
        /\ ConstructorWired(c)

\* C26: after from_class succeeds for class C with superclass S, C's prototype
\* has S's prototype as its prototype link; without a superclass the link is
\* the one the prototype was allocated with as an instance of Object, the
\* prototype of Object; the prototype has the dynamic property constructor
\* with value C, which is not among its enumerants and is never enumerated.
C26_PrototypeLinked ==
    \A c \in Built :
        /\ PrototypeOf(c).proto =
              IF klass.classes[c].superclass_object /= None
              THEN klass.classes[klass.classes[c].superclass_object].prototype
              ELSE klass.classes["Object"].prototype
        /\ ConstructorWired(c)

\* B is built over A, and C over no superclass.
C26_Witness ==
    /\ Built = {"A", "B", "C"}
    /\ klass.classes["B"].superclass_object = "A"
    /\ PrototypeOf("B").proto = "A"
    /\ klass.classes["C"].superclass_object = None
    /\ PrototypeOf("C").proto = "Object"
    /\ PrototypeOf("C").data.values["constructor"] = ClassValue("C")
    /\ PrototypeOf("C").data.enumerants = <<>>

\* The allocator declared by the nearest class on the superclass chain of c,
\* c included, that declares one; the generic allocator if none does.
RECURSIVE NearestDeclared(_)
NearestDeclared(c) ==
    IF klass.classes[c].class.instance_allocator /= None
        THEN klass.classes[c].class.instance_allocator
    ELSE IF klass.classes[c].superclass_object = None THEN "scriptobject_allocator"
    ELSE NearestDeclared(klass.classes[c].superclass_object)

\* C27: the allocator recorded for a class is the descriptor's own if it
\* declares one, else the one recorded for the superclass's class object,
\* which may itself be inherited, else the generic script-object allocator.
C27_AllocatorInherited ==
    \A c \in Built : klass.classes[c].instance_allocator = NearestDeclared(c)

\* A declares an allocator, B over A declares none, C over B declares none:
\* C records the allocator of A.
C27_Witness ==
    /\ Built = {"A", "B", "C"}
    /\ klass.classes["A"].class.instance_allocator = "date_allocator"
    /\ klass.classes["B"].class.instance_allocator = None
    /\ klass.classes["C"].class.instance_allocator = None
    /\ klass.classes["B"].superclass_object = "A"
    /\ klass.classes["C"].superclass_object = "B"
    /\ klass.classes["C"].instance_allocator = "date_allocator"

(***************************************************************************)
(*                        Qualified name properties                        *)
(***************************************************************************)

Parsed == qn.op = "parse" /\ qn.done
Rendered == qn.op = "render" /\ qn.done

\* The text is split at position i of the separator sep, the last position
\* at which sep occurs: the namespace is the package named by all that is
\* before it, the local name all that is after it.
SplitAtLast(sep) ==
    \E i \in Matches(qn.text, sep) :
        /\ \A k \in Matches(qn.text, sep) : k <= i
        /\ qn.q.ns = package(SubSeq(qn.text, 1, i - 1))
        /\ qn.q.name = SubSeq(qn.text, i + Len(sep), Len(qn.text))
        /\ as_uri(qn.q.ns) \o sep \o qn.q.name = qn.text

WholeIsLocalName == qn.q.ns = public_namespace /\ qn.q.name = qn.text

\* C28 as stated, with :: as the namespace separator: a text without it
\* yields the public namespace and the whole text as local name.
C28_Original ==
    Parsed =>
        IF Matches(qn.text, ColonColon) /= {} THEN SplitAtLast(ColonColon)
        ELSE WholeIsLocalName

\* C28: from_qualified_name splits its input at the last occurrence of ::,
\* or, when the input has no ::, at the last dot; what is before becomes the
\* namespace, kept whole even if it contains a separator, what is after the
\* local name; an input with neither yields the public namespace with the
\* whole input as local name.
C28_SplitAtLastSeparator ==
    Parsed =>
        IF Matches(qn.text, ColonColon) /= {} THEN SplitAtLast(ColonColon)
        ELSE IF Matches(qn.text, Dot) /= {} THEN SplitAtLast(Dot)
        ELSE WholeIsLocalName

\* a::a::a is parsed: the namespace is a::a.
C28_Witness ==
    /\ Parsed
    /\ qn.text = <<"a", ":", ":", "a", ":", ":", "a">>
    /\ as_uri(qn.q.ns) = <<"a", ":", ":", "a">>
    /\ qn.q.name = <<"a">>

NoSeparatorIn(name) == Matches(name, ColonColon) = {}

\* The two renderings of the name.
RenderedInStyle ==
    IF as_uri(qn.q.ns) = <<>>
    THEN qn.text = qn.q.name /\ qn.err_text = qn.q.name
    ELSE /\ qn.text = as_uri(qn.q.ns) \o <<":", ":">> \o qn.q.name
         /\ qn.err_text = as_uri(qn.q.ns) \o <<".">> \o qn.q.name

RoundTrip == as_uri(qn.parsed.ns) = as_uri(qn.q.ns) /\ qn.parsed.name = qn.q.name

\* C29 as stated: the ns::name rendering parses back to the same namespace
\* URI and local name whenever the local name contains no separator.
C29_Original ==
    Rendered =>
        /\ RenderedInStyle
        /\ as_uri(qn.q.ns) /= <<>> /\ NoSeparatorIn(qn.q.name) => RoundTrip

\* C29: a name renders as its local name alone when the namespace URI is
\* empty, and else as ns::name and, for error messages, as ns.name; the
\* ns::name rendering parses back to the same namespace URI and local name
\* when the local name contains no :: and does not begin with a colon.
C29_RenderAndRoundTrip ==
    Rendered =>
        /\ RenderedInStyle
        /\ /\ as_uri(qn.q.ns) /= <<>>
           /\ NoSeparatorIn(qn.q.name)
           /\ (qn.q.name = <<>> \/ qn.q.name[1] /= ":")
           => RoundTrip

\* The name a.a in the namespace a: is rendered and parsed back.
C29_Witness ==
    /\ Rendered
    /\ as_uri(qn.q.ns) = <<"a", ":">>
    /\ qn.q.name = <<"a", ".", "a">>
    /\ qn.text = <<"a", ":", ":", ":", "a", ".", "a">>
    /\ qn.err_text = <<"a", ":", ".", "a", ".", "a">>
    /\ qn.parsed = [ns |-> package(<<"a", ":">>), name |-> <<"a", ".", "a">>]

(***************************************************************************)
(*                          Stack trace properties                         *)
(***************************************************************************)

Displayed == shown.op = "display"

RECURSIVE Flatten(_)
Flatten(seqs) == IF seqs = <<>> THEN <<>> ELSE Head(seqs) \o Flatten(Tail(seqs))

\* The entry of the frame: the prefix, then the rendered method, or for a
\* global initializer global$init() with the unit in brackets under the tag.
EntryTagged(frame, tag) ==
    <<"\n\tat ">>
    \o (IF frame.node = "GlobalInit"
        THEN <<"global$init() [" \o tag \o "=", unit_name(frame.method), "]">>
        ELSE display_function(frame.method, frame.superclass))

\* The entries of the frames on the stack, the most recently pushed first.
EntriesTagged(tag) ==
    Flatten([i \in 1..Len(shown.stack) |->
                EntryTagged(shown.stack[Len(shown.stack) + 1 - i], tag)])

\* C30 as stated: the entry of a global initializer frame reads
\* global$init() [unit=NAME].
C30_Original == Displayed => shown.out = EntriesTagged("unit")

\* C30: display renders one entry per frame on the stack, the most recently
\* pushed frame first, each entry being newline, tab, "at " and the rendered
\* method, or for a global initializer frame global$init() [TU=NAME] with the
\* unit's name; an empty stack renders the empty text.
C30_StackTrace ==
    Displayed =>
        /\ shown.out = EntriesTagged("TU")
        /\ Cardinality({i \in 1..Len(shown.out) : shown.out[i] = "\n\tat "}) = Len(shown.stack)
        /\ shown.stack = <<>> => shown.out = <<>>

\* A native method of K called from the global initializer of unit1.
C30_Witness ==
    /\ Displayed
    /\ Len(shown.stack) = 2
    /\ shown.stack[1].node = "GlobalInit"
    /\ shown.stack[2].node = "Method"
    /\ shown.out = <<"\n\tat ", "K", "/", "m1", "()",
                     "\n\tat ", "global$init() [TU=", "unit1", "]">>

(***************************************************************************)
(*                     Finishing a class: properties                       *)
(***************************************************************************)

\* This step is a call of op on the class object.
FinCalls(op) == fin' /= fin /\ fin'.op = op

\* C31: into_finished_class enters its steps in the order class-side table,
\* interfaces, class-side slots, class initializer; when the class-side table
\* or the interface linking fails, the class initializer is not invoked and
\* the descriptor's flag stays unset if it was, and a later finish that gets
\* through with the flag unset invokes the initializer.
C31_FinishOrder ==
    [][FinCalls("into_finished_class") /\ fin'.res /= "panic" =>
          /\ IsPrefix(fin'.log, into_finished_steps)
          /\ (fin'.res = "Err" /\ Len(fin'.log) <= 2) =>
                /\ ~fin'.ran /\ fin'.runs = fin.runs
                /\ fin'.flags = fin.flags
          /\ fin'.ran <=> (fin'.log = into_finished_steps /\ fin.flags = {})
          /\ fin'.res = "Ok" => fin'.log = into_finished_steps /\ fin'.flags = {fin.obj.class}]_vars

\* A finish failed at the interfaces, and a later one ran the class
\* initializer and returned the class.
C31_Witness ==
    /\ fin.early
    /\ fin.op = "into_finished_class"
    /\ fin.res = "Ok"
    /\ fin.ran
    /\ fin.runs = 1
    /\ fin.log = into_finished_steps

\* C33: init_instance_vtable on a class object linked to no type returns an
\* error and leaves the instance table as it is, empty; neither it nor
\* into_finished_class completes with success on such a class object.
C33_NeedsLinkType ==
    [][fin.obj.instance_of = None /\ fin' /= fin
          /\ fin'.op \in {"init_instance_vtable", "into_finished_class"} =>
             /\ fin'.res /= "Ok"
             /\ fin'.op = "init_instance_vtable" => fin'.res = "Err"
             /\ ~fin'.obj.ivt
             /\ fin'.obj = fin.obj
             /\ ~fin'.ran /\ fin'.flags = fin.flags]_vars

\* init_instance_vtable has refused the class object that skipped link_type.
C33_Witness ==
    /\ fin.obj.instance_of = None
    /\ fin.op = "init_instance_vtable"
    /\ fin.res = "Err"
    /\ ~fin.obj.ivt

(***************************************************************************)
(*                           Borrow properties                             *)
(***************************************************************************)

HoldsIn(held, kind, cell) == \E i \in 1..Len(held) : held[i] = <<kind, cell>>

\* C32: when the class initializer is called, no borrow of the descriptor and
\* no write borrow of the class object is held; when link_interfaces copies
\* an alias, its write borrow of the class object is given back; no borrow
\* ever conflicts with one that is held.
C32_NoBorrowAcrossCalls ==
    /\ bor.res /= "panic"
    /\ \A ev \in bor.events :
          /\ ev.at = "call" =>
                /\ ~HoldsIn(ev.held, "write", "object")
                /\ ~HoldsIn(ev.held, "write", "descriptor")
                /\ ~HoldsIn(ev.held, "read", "descriptor")
          /\ ev.at = "copy" => ~HoldsIn(ev.held, "write", "object")
    /\ bor.res \in {"Ok", "Err"} => bor.held = <<>>

\* The class initializer was called and wrote to its own descriptor.
C32_Witness ==
    /\ bor.code = run_class_initializer_code
    /\ bor.res = "Ok"
    /\ bor.flag
    /\ bor.touched = <<"write", "descriptor">>
    /\ [at |-> "call", held |-> <<>>] \in bor.events

(***************************************************************************)
(*                 Supercalls by the kind of the entry                     *)
(***************************************************************************)

\* The method the entry leads to, bound to the receiver of the caller.
BoundToReceiver(role) ==
    /\ lastSuper.out.callee.method = lastSuper.name
    /\ lastSuper.out.callee.role = role
    /\ lastSuper.out.callee.receiver = lastSuper.from.receiver

C34_WitnessNoGetter ==
    /\ lastSuper.op = "get_super"
    /\ SuperEntry.kind = "Virtual"
    /\ SuperEntry.get = -1
    /\ lastSuper.out.kind = "error"

(***************************************************************************)
(*                  The enumerant list of a dynamic object                 *)
(***************************************************************************)

\* C35: the enumerant list holds no name twice, and every name in it is a
\* key of the dynamic map, after any sequence of set_property_local,
\* init_property_local, delete_property_local and
\* set_local_property_is_enumerable.
C35_EnumerantsAreDistinctKeys ==
    /\ \A i, j \in 1..Len(obj.enumerants) :
          i /= j => obj.enumerants[i] /= obj.enumerants[j]
    /\ \A i \in 1..Len(obj.enumerants) : obj.enumerants[i] \in DOMAIN obj.values

\* A deletion has left one name listed and the map without the deleted name.
C35_Witness ==
    /\ lastOp.op = "delete_property_local"
    /\ lastOp.res = Bool(TRUE)
    /\ Len(obj.enumerants) = 1
    /\ local_name(lastOp.mn) \notin DOMAIN obj.values

\* A write that went through, to the name it wrote.
WroteTo(op, name) ==
    /\ op.op \in {"set_property_local", "init_property_local"}
    /\ op.res = "Ok"
    /\ local_name(op.mn) = name

\* C36: a write to a name that is a key of the dynamic map leaves the
\* enumerant list as it is, so the name keeps its place if it is listed and
\* stays unlisted if it is not; a write to a name that is no key of the map,
\* as after its deletion, appends the name at the end of the list.
C36_OverwriteKeepsEnumerants ==
    [][\A name \in PropNames :
         lastOp' /= lastOp /\ WroteTo(lastOp', name) =>
            IF name \in DOMAIN obj.values
            THEN obj'.enumerants = obj.enumerants
            ELSE obj'.enumerants = Append(obj.enumerants, name)]_vars

\* A write has overwritten a property that is not listed, next to a listed one.
C36_Witness ==
    /\ \E name \in PropNames : WroteTo(lastOp, name)
    /\ local_name(lastOp.mn) \in DOMAIN obj.values
    /\ ~Contains(obj.enumerants, local_name(lastOp.mn))
    /\ Len(obj.enumerants) = 1

(***************************************************************************)
(*                  Slot vectors and default slots                         *)
(***************************************************************************)

\* The slot values a list of defaults stands for.
Filled(defaults) ==
    [i \in 1..Len(defaults) |-> IF defaults[i] = NoDefault THEN Undefined ELSE defaults[i]]

\* C37 as stated: whenever slots were installed on the object, also more
\* than once, the slot vector is as long as the list of default slots and
\* slot i holds default i.
C37_Original ==
    inst.installs >= 1 =>
        /\ Len(inst.slots) = Len(inst.defaults)
        /\ inst.slots = Filled(inst.defaults)

\* C37: after construct and after the first into_finished_class of a class
\* object the slot vector is as long as the list of default slots of the
\* object's table and slot i holds default i, undefined where there is none;
\* every further into_finished_class or install_instance_slots that reaches
\* the installation appends the defaults once more.
C37_SlotsInstalledByAppending ==
    /\ [](inst.installs = 1 =>
            /\ Len(inst.slots) = Len(inst.defaults)
            /\ inst.slots = Filled(inst.defaults))
    /\ [](inst.op = "construct" /\ inst.res = "Ok" => inst.installs = 1)
    /\ [][inst'.installs = inst.installs + 1 =>
            inst'.slots = inst.slots \o Filled(inst.defaults)]_vars
    /\ [][inst'.installs = inst.installs => inst'.slots = inst.slots]_vars

\* A second into_finished_class has installed the slots of a class object
\* with one default and one slot without default a second time.
C37_Witness ==
    /\ inst.kind = "class"
    /\ inst.op = "into_finished_class"
    /\ inst.installs = 2
    /\ inst.defaults = <<NoDefault, <<"v1">>>>
    /\ inst.slots = <<Undefined, <<"v1">>, Undefined, <<"v1">>>>

(***************************************************************************)
(*                     Termination of the lookup                           *)
(***************************************************************************)

\* C38: a get_property_local that walks the prototype chain returns, after
\* any allocate_prototype, link_type and set_proto calls before it.
C38_LookupTerminates == (heap.lookup = "walking") ~> (heap.lookup = "returned")

(***************************************************************************)
(*                  A specialization that fails to build                   *)
(***************************************************************************)

\* The apply observed last got as far as building the class for this key.
Building(op, key) ==
    /\ Len(op.args) = 1
    /\ op.args[1] /= "notclass"
    /\ ObjectParam(op.args[1]) = key

\* C39: when from_class fails inside apply, apply returns that error and
\* the cache of the generic class is as before, without an entry for the
\* parameter; the next apply with the same parameter, the cache still
\* without it, builds the class again and caches it if the build succeeds.
C39_FailedBuildLeavesCache ==
    /\ [][lastApply' /= lastApply /\ lastApply'.err = "from_class" =>
            /\ lastApply'.res = "Err"
            /\ lastApply'.ret = 0
            /\ generic' = generic
            /\ arena' = arena
            /\ \E key \in ParamKeys :
                  Building(lastApply', key) /\ key \notin DOMAIN generic'.applications]_vars
    /\ [][\A key \in ParamKeys :
            (/\ lastApply.err = "from_class"
             /\ Building(lastApply, key)
             /\ key \notin DOMAIN Apps
             /\ lastApply' /= lastApply
             /\ lastApply'.args = lastApply.args) =>
                /\ lastApply'.res = "Ok"
                /\ lastApply'.ret = Len(arena) + 1
                /\ arena' = Append(arena, [params |-> key])
                /\ generic'.applications[key] = lastApply'.ret]_vars

\* apply(null) has failed in from_class while the specialization for int is
\* cached: the cache holds the entry for int and none for `*`.
C39_Witness ==
    /\ lastApply.err = "from_class"
    /\ lastApply.res = "Err"
    /\ lastApply.args = <<"Null">>
    /\ ~generic.host
    /\ DOMAIN Apps = {"int"}

(***************************************************************************)
(*                     A link_interfaces call that fails                   *)
(***************************************************************************)

\* C40: a link_interfaces call that fails, on a name the domain does not
\* resolve or on a class that is no interface, leaves the stored interface
\* list as it was before the call and the instance table without any new
\* entry.
C40_FailedLinkChangesNothing ==
    ifc.phase = "failed" =>
        /\ ifc.loop.err \in {"resolve", "not an interface"}
        /\ ifc.written = ifc.written0
        /\ ifc.vt = ifc.vt0

\* The call listed I and then met the class S among the interfaces: the list
\* stored by an earlier linking is still there.
C40_Witness ==
    /\ ifc.phase = "failed"
    /\ ifc.loop.err = "not an interface"
    /\ ifc.loop.interfaces = <<"I">>
    /\ ifc.written0 = <<"J">>
    /\ ifc.written = <<"J">>

\* The call listed I and then met a name the domain does not resolve.
C40_WitnessUnresolved ==
    /\ ifc.phase = "failed"
    /\ ifc.loop.err = "resolve"
    /\ ifc.loop.interfaces = <<"I">>
    /\ ifc.written = <<"I", "J">>

====
